---------------------------- MODULE Spec2Model ----------------------------
(***************************************************************************)
(* Model of the cycle-detection and time-sequence reconciliation engine    *)
(* (core/cycle_analyzer.py) and of the batch orchestrator                  *)
(* (services/analysis_service.py, services/timestring_recovery_service.py).*)
(*                                                                         *)
(* A timestamp is an integer number of milliseconds since the origin       *)
(* Epoch (12/01/2024 00:00:00).  A cell of a TimeString column is a record [kind, t]:           *)
(*   kind = "ts"       text that pandas.to_datetime(dayfirst=True) parses  *)
(*                     to the timestamp t;                                 *)
(*   kind = "null"     NaN / None / NaT or null-like text ('', 'null',...);*)
(*   kind = "bad"      text that no parsing strategy accepts;              *)
(*   kind = "overflow" near-valid text with an hour or day overflow, which *)
(*                     pandas.to_datetime rejects and which                *)
(*                     _try_fix_common_issues repairs to the timestamp t;  *)
(*   kind = "text"     text written by strftime('%d/%m/%Y %H:%M:%S'), whose *)
(*                     field t is the tuple <<dd, mm, yyyy, HH, MM, SS>>.   *)
(* A table is a record [has_col, dtype, rows]: has_col says whether the    *)
(* time column is present, dtype is the pandas dtype of that column and    *)
(* rows holds one cell per row of the table (the cell of the time column   *)
(* when it is present).  Input tables hold text columns (dtype "object").  *)
(***************************************************************************)
EXTENDS Integers, Sequences, FiniteSets, TLC

VARIABLES
    pc,                     \* "ready" before the call, "done" after it
    op,                     \* the entry point that was called
    args,                   \* the tables a _compare_time_series call was given
    fault,                  \* whether detect_cycles raised inside analyze_table
    time_threshold_minutes, \* AnalysisConfig.time_threshold_minutes
    strategy,               \* recovery_strategy argument of analyze_tables
    table_names,            \* iteration order of the input mapping
    table_data,             \* the input mapping name -> table
    cycles,                 \* return value of detect_cycles
    result,                 \* return value of analyze_table
    all_matching,           \* first component returned by check_time_matching
    debug_info,             \* second component returned by check_time_matching
    comparison,             \* return value of _compare_time_series
    analysis_results,       \* AnalysisService.analysis_results
    time_matched,           \* AnalysisService.time_matched
    raised,                 \* name of the exception that escaped, "" if none
    recovery_confidence,    \* confidence_threshold argument of recover_timestrings
    recovery,               \* return value of recover_timestrings
    lote_data,              \* rows of the detailed mapping (LOTE_DATA)
    lote_summary,           \* rows of the cycle summary (LOTE_SUMMARY)
    fixed,                  \* return value of _try_fix_common_issues
    quality,                \* return value of analyze_timestring_quality
    analysis_summary        \* return value of get_analysis_summary

vars == <<pc, op, args, fault, time_threshold_minutes, strategy, table_names, table_data,
          cycles, result, all_matching, debug_info, comparison,
          analysis_results, time_matched, raised,
          recovery_confidence, recovery, lote_data, lote_summary, fixed, quality,
                   analysis_summary>>

---------------------------------------------------------------------------
(* Bounds of the model.                                                    *)

\* longest column given to detect_cycles / analyze_table
MaxLen == 4

\* longest column of a table given to check_time_matching / analyze_tables
MaxRows == 2

\* longest column given to recover_timestrings
MaxCol == 6

---------------------------------------------------------------------------
(* Values.                                                                 *)

\* pd.NaT, the null marker of a parsed column
NaT == -1

\* timedelta(minutes = 1) in milliseconds
MsPerMinute == 60000

\* one second in milliseconds (strftime('%S') keeps whole seconds)
MsPerSecond == 1000

TsCell(t) == [kind |-> "ts", t |-> t]

NullCell == [kind |-> "null", t |-> 0]

BadCell == [kind |-> "bad", t |-> 0]

OverflowCell(t) == [kind |-> "overflow", t |-> t]

\* time thresholds the configuration dialog accepts: int(text), unvalidated
Thresholds == {-1, 0, 1}

\* cells of the columns given to detect_cycles / analyze_table
DetectCells == {TsCell(0), TsCell(500), TsCell(60000), TsCell(120500), NullCell, BadCell}

\* cells of the columns given to check_time_matching
MatchCells == {TsCell(0), TsCell(60000), NullCell}

\* cells of the columns given to analyze_tables
BatchCells ==
    {TsCell(600000), TsCell(660000), TsCell(660500), NullCell, OverflowCell(720000)}

\* cells of the columns of the table the LOTE tables are generated for:
\* 12/01/2024 00:00:00, 00:00:00.500, 00:01:00 and 13/01/2024 01:02:03.500
LoteCells == {TsCell(0), TsCell(500), TsCell(60000), TsCell(90123500), NullCell}

\* cells of the columns given to recover_timestrings
RecoverCells == {TsCell(600000), TsCell(660500), NullCell, OverflowCell(720000)}

\* values given as confidence_threshold (0.6, the default 0.7, 0.9)
ConfidenceThresholds == {<<6, 10>>, <<7, 10>>, <<9, 10>>}

\* table names, in the order the input mapping is filled
Names == <<"A", "B", "C">>

SeqsUpTo(S, n) == UNION {[1..k -> S] : k \in 0..n}

RECURSIVE SumSeq(_)
SumSeq(s) == IF s = <<>> THEN 0 ELSE Head(s) + SumSeq(Tail(s))

Min2(a, b) == IF a < b THEN a ELSE b

Max2(a, b) == IF a > b THEN a ELSE b

Abs(x) == IF x < 0 THEN -x ELSE x

RangeOf(s) == {s[i] : i \in DOMAIN s}

---------------------------------------------------------------------------
(* core/models.py                                                          *)

\* duration_ms is duration_minutes * 60000: the code stores
\* total_seconds() / 60, the model keeps the exact numerator
Cycle(cycle_id, start_time, end_time, sample_count) ==
    [cycle_id |-> cycle_id, start_time |-> start_time, end_time |-> end_time,
     sample_count |-> sample_count, duration_ms |-> end_time - start_time]

TableResult(table_name, cycs, total_cycles, error_message) ==
    [table_name |-> table_name, cycles |-> cycs, total_cycles |-> total_cycles,
     time_matched |-> FALSE, error_message |-> error_message]

NoResult == TableResult("", <<>>, 0, "")

---------------------------------------------------------------------------
(* core/cycle_analyzer.py : parsing and cycle detection                    *)

\* CycleAnalyzer.__init__: timedelta(minutes = time_threshold_minutes)
time_threshold(minutes) == minutes * MsPerMinute

\* the calendar date of timestamp 0
Epoch == [day |-> 12, month |-> 1, year |-> 2024]

IsLeap(y) == (y % 4 = 0 /\ y % 100 # 0) \/ y % 400 = 0

DaysInMonth(m, y) ==
    IF m = 2 THEN (IF IsLeap(y) THEN 29 ELSE 28)
    ELSE IF m \in {4, 6, 9, 11} THEN 30 ELSE 31

\* the date <<day, month, year>> that lies d - 1 days after the first of
\* month m of year y (d may be below 1 or beyond the month's length)
RECURSIVE NormalizeDate(_, _, _)
NormalizeDate(d, m, y) ==
    IF d > DaysInMonth(m, y)
    THEN (IF m = 12 THEN NormalizeDate(d - DaysInMonth(m, y), 1, y + 1)
          ELSE NormalizeDate(d - DaysInMonth(m, y), m + 1, y))
    ELSE IF d < 1
    THEN (IF m = 1 THEN NormalizeDate(d + DaysInMonth(12, y - 1), 12, y - 1)
          ELSE NormalizeDate(d + DaysInMonth(m - 1, y), m - 1, y))
    ELSE <<d, m, y>>

\* the number of days from the first of January of year y0 to the date d/m/y
RECURSIVE DayNumber(_, _, _, _)
DayNumber(d, m, y, y0) ==
    IF y > y0 THEN (IF IsLeap(y - 1) THEN 366 ELSE 365) + DayNumber(d, m, y - 1, y0)
    ELSE IF y < y0 THEN DayNumber(d, m, y + 1, y0) - (IF IsLeap(y) THEN 366 ELSE 365)
    ELSE IF m > 1 THEN DaysInMonth(m - 1, y) + DayNumber(d, m - 1, y, y0)
    ELSE d - 1

strftime_without_seconds(t) ==
    LET date == NormalizeDate(Epoch.day + (t \div (1440 * MsPerMinute)),
                              Epoch.month, Epoch.year)
        rem == t % (1440 * MsPerMinute)
    IN  [kind |-> "text",
         t |-> <<date[1], date[2], date[3],
                 rem \div (60 * MsPerMinute), (rem \div MsPerMinute) % 60, 0>>]

\* Timestamp.strftime('%d/%m/%Y %H:%M:%S'): the text cell for timestamp t
strftime(t) ==
    LET date == NormalizeDate(Epoch.day + (t \div (1440 * MsPerMinute)),
                              Epoch.month, Epoch.year)
        rem == t % (1440 * MsPerMinute)
    IN  [kind |-> "text",
         t |-> <<date[1], date[2], date[3],
                 rem \div (60 * MsPerMinute), (rem \div MsPerMinute) % 60,
                 (rem \div MsPerSecond) % 60>>]

\* pd.to_datetime(dayfirst=True) on the text <<dd, mm, yyyy, HH, MM, SS>>: the
\* first field is the day, the second the month
parse_dayfirst(f) ==
    IF f[2] \in 1..12 /\ f[1] \in 1..DaysInMonth(f[2], f[3])
       /\ f[4] \in 0..23 /\ f[5] \in 0..59 /\ f[6] \in 0..59
    THEN (DayNumber(f[1], f[2], f[3], Epoch.year)
            - DayNumber(Epoch.day, Epoch.month, Epoch.year, Epoch.year))
           * (1440 * MsPerMinute)
         + f[4] * (60 * MsPerMinute) + f[5] * MsPerMinute + f[6] * MsPerSecond
    ELSE NaT

\* pd.to_datetime(value, dayfirst=True, errors='coerce') on one cell
to_datetime(cell) ==
    IF cell.kind = "ts" THEN cell.t
    ELSE IF cell.kind = "text" THEN parse_dayfirst(cell.t)
    ELSE NaT

\* parse_time_string: the column parsed cell by cell, failures become NaT
parse_time_string(rows) == [i \in DOMAIN rows |-> to_datetime(rows[i])]

dropna_keeps_all(s) == s

\* Series.dropna()
dropna(s) == SelectSeq(s, LAMBDA x : x # NaT)

RECURSIVE InsertSorted(_, _)
InsertSorted(x, s) ==
    IF s = <<>> THEN <<x>>
    ELSE IF x < Head(s) THEN <<x>> \o s
    ELSE <<Head(s)>> \o InsertSorted(x, Tail(s))

\* Series.sort_values().reset_index(drop=True): ascending, stable
RECURSIVE sort_values(_)
sort_values(s) ==
    IF s = <<>> THEN <<>>
    ELSE InsertSorted(s[Len(s)], sort_values(SubSeq(s, 1, Len(s) - 1)))

GapExceedsInclusive(time_diff, threshold) == time_diff >= threshold

\* line 48: time_diff > self.time_threshold
GapExceeds(time_diff, threshold) == time_diff > threshold

ClosedSampleCountWithGap(sample_count) == sample_count

\* line 56: sample_count - 1, the sample after the gap is not counted
ClosedSampleCount(sample_count) == sample_count - 1

ClosedEndTimeAtCurrent(previous_time, current_time) == current_time

\* line 55: a closed cycle ends at the sample before the gap
ClosedEndTime(previous_time, current_time) == previous_time

NextCycleIdStuck(current_cycle_id) == current_cycle_id

\* line 61: current_cycle_id += 1
NextCycleId(current_cycle_id) == current_cycle_id + 1

\* lines 43-65: the loop over the sorted series from position i on
RECURSIVE detect_loop(_, _, _, _)
detect_loop(ts, i, st, threshold) ==
    IF i > Len(ts) THEN st
    ELSE LET current_time == ts[i]
             time_diff == current_time - st.previous_time
             sample_count == st.sample_count + 1
         IN  IF GapExceeds(time_diff, threshold)
             THEN detect_loop(ts, i + 1,
                      [cycles |-> Append(st.cycles,
                                    Cycle(st.current_cycle_id, st.cycle_start,
                                          ClosedEndTime(st.previous_time, current_time),
                                          ClosedSampleCount(sample_count))),
                       current_cycle_id |-> NextCycleId(st.current_cycle_id),
                       cycle_start |-> current_time,
                       previous_time |-> current_time,
                       sample_count |-> 1],
                      threshold)
             ELSE detect_loop(ts, i + 1,
                      [st EXCEPT !.previous_time = current_time,
                                 !.sample_count = sample_count],
                      threshold)

initial_state_uncounted(ts) ==
    [cycles |-> <<>>, current_cycle_id |-> 1,
     cycle_start |-> ts[1], previous_time |-> ts[1], sample_count |-> 0]

\* lines 37-41: the locals before the loop
initial_state(ts) ==
    [cycles |-> <<>>, current_cycle_id |-> 1,
     cycle_start |-> ts[1], previous_time |-> ts[1], sample_count |-> 1]

\* CycleAnalyzer.detect_cycles
detect_cycles(rows, minutes) ==
    IF Len(rows) = 0 THEN <<>>
    ELSE LET parsed == dropna(parse_time_string(rows))
         IN  IF Len(parsed) = 0 THEN <<>>
             ELSE LET ts == sort_values(parsed)
                      st == detect_loop(ts, 2, initial_state(ts),
                                time_threshold(minutes))
                  IN  Append(st.cycles,
                             Cycle(st.current_cycle_id, st.cycle_start,
                                   st.previous_time, st.sample_count))

analyze_table_empty_first(table_name, table, minutes, raises) ==
    IF Len(table.rows) = 0
    THEN TableResult(table_name, <<>>, 0, "Table is empty")
    ELSE IF ~table.has_col
    THEN TableResult(table_name, <<>>, 0, "Column 'TimeString' not found")
    ELSE IF raises
    THEN TableResult(table_name, <<>>, 0, "Analysis error")
    ELSE TableResult(table_name, detect_cycles(table.rows, minutes),
                     Len(detect_cycles(table.rows, minutes)), "")

\* CycleAnalyzer.analyze_table; raises says that detect_cycles raised
analyze_table(table_name, table, minutes, raises) ==
    IF ~table.has_col
    THEN TableResult(table_name, <<>>, 0, "Column 'TimeString' not found")
    ELSE IF Len(table.rows) = 0
    THEN TableResult(table_name, <<>>, 0, "Table is empty")
    ELSE IF raises
    THEN TableResult(table_name, <<>>, 0, "Analysis error")
    ELSE LET cycs == detect_cycles(table.rows, minutes)
         IN  TableResult(table_name, cycs, Len(cycs), "")

---------------------------------------------------------------------------
(* core/cycle_analyzer.py : cross-table time matching                      *)

\* a reason string; the fields carry the values the f-string interpolates
Reason(kind, a, b, n, m) == [kind |-> kind, a |-> a, b |-> b, n |-> n, m |-> m]

\* dtype of a series returned by parse_time_string
series_dtype(series) == "datetime64[ns]"

\* line 214: ref_time != test_time
RowDiffers(ref_time, test_time) == ref_time # test_time

LengthDiffersNever(ref_series, test_series) == FALSE

\* line 199: len(ref_series) != len(test_series)
LengthDiffers(ref_series, test_series) == Len(ref_series) # Len(test_series)

ExtraRowsOffByOne(longer, shorter) == Len(longer) - Len(shorter) + 1

\* lines 241, 246: the number of rows the longer series has beyond the shorter
ExtraRows(longer, shorter) == Len(longer) - Len(shorter)

\* lines 210-237: the rows of the common prefix whose timestamps differ
mismatch_rows(ref_series, test_series) ==
    LET min_length == Min2(Len(ref_series), Len(test_series))
    IN  SelectSeq([i \in 1..min_length |-> i],
                  LAMBDA i : RowDiffers(ref_series[i], test_series[i]))

RECURSIVE MaxOfSeq(_)
MaxOfSeq(s) == IF Len(s) = 1 THEN s[1] ELSE Max2(Head(s), MaxOfSeq(Tail(s)))

RECURSIVE MinOfSeq(_)
MinOfSeq(s) == IF Len(s) = 1 THEN s[1] ELSE Min2(Head(s), MinOfSeq(Tail(s)))

\* CycleAnalyzer._compare_time_series; differences are kept in milliseconds
\* (the code keeps seconds as floats), averages and percentages as the pair
\* <<numerator, denominator>>
compare_time_series(ref_series, test_series, ref_name, test_name) ==
    LET min_length == Min2(Len(ref_series), Len(test_series))
        differs == LengthDiffers(ref_series, test_series)
        rows == mismatch_rows(ref_series, test_series)
        mismatch_count == Len(rows)
        time_diffs == [k \in 1..Len(rows) |->
                          Abs(ref_series[rows[k]] - test_series[rows[k]])]
        ref_longer == Len(ref_series) > Len(test_series)
        test_longer == Len(test_series) > Len(ref_series)
        dtype_differs == series_dtype(ref_series) # series_dtype(test_series)
        reasons ==
            (IF differs
             THEN <<Reason("different_row_counts", ref_name, test_name,
                           Len(ref_series), Len(test_series))>>
             ELSE <<>>)
            \o (IF ref_longer
                THEN <<Reason("extra_rows_at_end", ref_name, "",
                              ExtraRows(ref_series, test_series), 0)>>
                ELSE <<>>)
            \o (IF test_longer
                THEN <<Reason("extra_rows_at_end", test_name, "",
                              ExtraRows(test_series, ref_series), 0)>>
                ELSE <<>>)
            \o (IF time_diffs # <<>>
                THEN <<Reason("rows_have_mismatches", "", "", mismatch_count, 0),
                       Reason("average_time_difference", "", "",
                              SumSeq(time_diffs), Len(time_diffs)),
                       Reason("maximum_time_difference", "", "",
                              MaxOfSeq(time_diffs), 0)>>
                ELSE <<>>)
            \o (IF dtype_differs
                THEN <<Reason("different_dtypes", ref_name, test_name, 0, 0)>>
                ELSE <<>>)
            \o (IF time_diffs # <<>> /\ MaxOfSeq(time_diffs) <= MsPerSecond
                THEN <<Reason("within_1_second_tolerance", "", "", 0, 0)>>
                ELSE <<>>)
        stats ==
            (IF differs
             THEN {<<"length_difference", Abs(Len(ref_series) - Len(test_series))>>}
             ELSE {})
            \cup (IF ref_longer
                  THEN {<<"extra_rows_in_reference", ExtraRows(ref_series, test_series)>>}
                  ELSE {})
            \cup (IF test_longer
                  THEN {<<"extra_rows_in_test", ExtraRows(test_series, ref_series)>>}
                  ELSE {})
            \cup (IF time_diffs # <<>>
                  THEN {<<"mismatch_count", mismatch_count>>,
                        <<"mismatch_percentage", <<mismatch_count * 100, min_length>> >>,
                        <<"avg_time_diff_ms", <<SumSeq(time_diffs), Len(time_diffs)>> >>,
                        <<"max_time_diff_ms", MaxOfSeq(time_diffs)>>,
                        <<"min_time_diff_ms", MinOfSeq(time_diffs)>>}
                  ELSE {})
    IN  [matches |-> ~differs /\ time_diffs = <<>> /\ ~dtype_differs,
         reasons |-> reasons,
         stats |-> stats,
         mismatch_details |->
             [k \in 1..Len(rows) |->
                 [row_index |-> rows[k] - 1,
                  reference_value |-> ref_series[rows[k]],
                  test_value |-> test_series[rows[k]],
                  difference_ms |-> time_diffs[k]]],
         row_comparisons |->
             [k \in 1..Len(rows) |->
                 [row |-> rows[k],
                  reference |-> ref_series[rows[k]],
                  test |-> test_series[rows[k]],
                  diff_ms |-> time_diffs[k],
                  match |-> IF time_diffs[k] > 1 THEN "cross" ELSE "warning"]]]

\* lines 134-154: the parsing loop over tables.items() from position i on;
\* acc.parsed_series keeps the insertion order of the dict
RECURSIVE parse_tables(_, _, _, _)
parse_tables(names, data, i, acc) ==
    IF i > Len(names) THEN acc
    ELSE LET table_name == names[i]
             df == data[table_name]
             series == dropna(parse_time_string(df.rows))
         IN  IF ~df.has_col
             THEN parse_tables(names, data, i + 1,
                      [acc EXCEPT
                         !.mismatch_reasons =
                             Append(@, Reason("missing_column", table_name, "", 0, 0)),
                         !.tables_checked =
                             Append(@, [table |-> table_name, status |-> "error",
                                        count |-> 0])])
             ELSE IF series = <<>>
             THEN parse_tables(names, data, i + 1,
                      [acc EXCEPT
                         !.mismatch_reasons =
                             Append(@, Reason("no_valid_timestamps", table_name, "", 0, 0)),
                         !.tables_checked =
                             Append(@, [table |-> table_name, status |-> "error",
                                        count |-> 0])])
             ELSE parse_tables(names, data, i + 1,
                      [acc EXCEPT
                         !.parsed_series =
                             Append(@, [name |-> table_name, series |-> series]),
                         !.tables_checked =
                             Append(@, [table |-> table_name, status |-> "ok",
                                        count |-> Len(series)])])

PickLastLongest(parsed_series) ==
    CHOOSE i \in DOMAIN parsed_series :
        /\ \A j \in DOMAIN parsed_series :
              Len(parsed_series[j].series) <= Len(parsed_series[i].series)
        /\ \A j \in DOMAIN parsed_series :
              Len(parsed_series[j].series) = Len(parsed_series[i].series) => j <= i

\* line 161: max(parsed_series.items(), key=len) returns the first longest
PickReference(parsed_series) ==
    CHOOSE i \in DOMAIN parsed_series :
        /\ \A j \in DOMAIN parsed_series :
              Len(parsed_series[j].series) <= Len(parsed_series[i].series)
        /\ \A j \in DOMAIN parsed_series :
              Len(parsed_series[j].series) = Len(parsed_series[i].series) => i <= j

VerdictInverted(so_far, cmp) == so_far /\ ~cmp.matches

VerdictOfLast(so_far, cmp) == cmp.matches

\* lines 168, 176-177: all_matching is cleared by a comparison that fails
Verdict(so_far, cmp) == so_far /\ cmp.matches

\* lines 170-180: the comparison loop over parsed_series.items() from i on
RECURSIVE compare_tables(_, _, _, _)
compare_tables(parsed_series, ref, i, acc) ==
    IF i > Len(parsed_series) THEN acc
    ELSE IF i = ref THEN compare_tables(parsed_series, ref, i + 1, acc)
    ELSE LET cmp == compare_time_series(parsed_series[ref].series,
                                        parsed_series[i].series,
                                        parsed_series[ref].name,
                                        parsed_series[i].name)
         IN  compare_tables(parsed_series, ref, i + 1,
                 [all_matching |-> Verdict(acc.all_matching, cmp),
                  mismatch_reasons |->
                      IF ~cmp.matches THEN acc.mismatch_reasons \o cmp.reasons
                      ELSE acc.mismatch_reasons,
                  summary |-> Append(acc.summary,
                                 [table |-> parsed_series[i].name, comparison |-> cmp])])

\* debug_info before a reference table is chosen
EmptyDebugInfo ==
    [tables_checked |-> <<>>, mismatch_reasons |-> <<>>, summary |-> <<>>,
     reference_table |-> "", reference_count |-> 0]

TooFewTablesOnlyNone(parsed_series) == Len(parsed_series) < 1

\* line 156: len(parsed_series) < 2
TooFewTables(parsed_series) == Len(parsed_series) < 2

\* CycleAnalyzer.check_time_matching: [all_matching, debug_info]; summary is
\* the dict table_name -> comparison as the sequence of its items
check_time_matching(names, data) ==
    IF names = <<>>
    THEN [all_matching |-> FALSE,
          debug_info |-> [EmptyDebugInfo EXCEPT
                             !.mismatch_reasons =
                                 <<Reason("no_tables_provided", "", "", 0, 0)>>]]
    ELSE LET p == parse_tables(names, data, 1,
                      [parsed_series |-> <<>>, mismatch_reasons |-> <<>>,
                       tables_checked |-> <<>>])
         IN  IF TooFewTables(p.parsed_series)
             THEN [all_matching |-> FALSE,
                   debug_info |-> [EmptyDebugInfo EXCEPT
                                      !.tables_checked = p.tables_checked,
                                      !.mismatch_reasons =
                                          Append(p.mismatch_reasons,
                                              Reason("need_two_valid_tables", "", "", 0, 0))]]
             ELSE LET ref == PickReference(p.parsed_series)
                      c == compare_tables(p.parsed_series, ref, 1,
                               [all_matching |-> TRUE,
                                mismatch_reasons |-> p.mismatch_reasons,
                                summary |-> <<>>])
                  IN  [all_matching |-> c.all_matching,
                       debug_info |->
                           [tables_checked |-> p.tables_checked,
                            mismatch_reasons |-> c.mismatch_reasons,
                            summary |-> c.summary,
                            reference_table |-> p.parsed_series[ref].name,
                            reference_count |-> Len(p.parsed_series[ref].series)]]

---------------------------------------------------------------------------
(* services/timestring_recovery_service.py                                 *)

Table(has_col, dtype, rows) == [has_col |-> has_col, dtype |-> dtype, rows |-> rows]

\* strftime('%d/%m/%Y %H:%M:%S') / strftime('%Y-%m-%d %H:%M:%S') followed by
\* pd.to_datetime: the sub-second part is dropped
TruncSec(t) == IF t = NaT THEN NaT ELSE t - (t % MsPerSecond)

\* _is_null_value
is_null_value(cell) == cell.kind = "null"

\* _parse_timestamp: [parsed, issue], parsed = NaT stands for None
parse_timestamp(cell) ==
    IF cell.kind = "null" THEN [parsed |-> NaT, issue |-> "null_value"]
    ELSE IF cell.kind = "ts" THEN [parsed |-> cell.t, issue |-> "valid"]
    ELSE IF cell.kind = "overflow" THEN [parsed |-> cell.t, issue |-> "fixed_overflow"]
    ELSE [parsed |-> NaT, issue |-> "unparseable"]

\* analyze_timestring_quality for a table that has the column;
\* data_loss_percentage is the pair <<numerator, denominator>>, and raised
\* names the exception of the division on lines 64-67
analyze_timestring_quality(rows) ==
    LET total_rows == Len(rows)
        null_count == Len(SelectSeq(rows, is_null_value))
        valid_count == Len(SelectSeq(rows,
                          LAMBDA c : ~is_null_value(c) /\ parse_timestamp(c).parsed # NaT))
        invalid_count == Len(SelectSeq(rows,
                          LAMBDA c : ~is_null_value(c) /\ parse_timestamp(c).parsed = NaT))
    IN  [total_rows |-> total_rows,
         valid_count |-> valid_count,
         invalid_count |-> invalid_count,
         null_count |-> null_count,
         data_loss_percentage |-> <<(invalid_count + null_count) * 100, total_rows>>,
         raised |-> IF total_rows = 0 THEN "ZeroDivisionError" ELSE ""]

\* p < k for a percentage p = <<numerator, denominator>>, denominator > 0
PctBelow(p, k) == p[1] < k * p[2]

choose_strategy_inclusive(strat, data_loss_percentage) ==
    IF strat # "auto" THEN strat
    ELSE IF PctBelow(data_loss_percentage, 5) THEN "interpolate"
    ELSE IF data_loss_percentage[1] <= 20 * data_loss_percentage[2] THEN "reconstruct"
    ELSE "pattern"

\* lines 190-196: the strategy chosen under "auto"
choose_strategy(strat, data_loss_percentage) ==
    IF strat # "auto" THEN strat
    ELSE IF PctBelow(data_loss_percentage, 5) THEN "interpolate"
    ELSE IF PctBelow(data_loss_percentage, 20) THEN "reconstruct"
    ELSE "pattern"

\* a confidence c in [0, 1] is the pair <<c * 10 * n, 10 * n>>, n = len(df)
Conf(tenths, n) == <<tenths * n, 10 * n>>

\* lines 298-306: the per-row intervals of the last (up to 3) gaps between
\* the valid points before the missing position
RECURSIVE recent_intervals(_, _, _)
recent_intervals(prev_valid_idx, times, i) ==
    IF i >= Min2(4, Len(prev_valid_idx)) THEN <<>>
    ELSE <<(times[prev_valid_idx[Len(prev_valid_idx) - i + 1]]
              - times[prev_valid_idx[Len(prev_valid_idx) - i]])
           \div (prev_valid_idx[Len(prev_valid_idx) - i + 1]
                   - prev_valid_idx[Len(prev_valid_idx) - i])>>
         \o recent_intervals(prev_valid_idx, times, i + 1)

estimate_between_rising(index, prev_idx, next_idx, times, n) ==
    [confidence |-> <<9 * n + 2 * (next_idx - prev_idx - 1), 10 * n>>,
     estimated_time |->
         times[prev_idx]
         + ((times[next_idx] - times[prev_idx]) * (index - prev_idx))
             \div (next_idx - prev_idx)]

\* lines 274-289: a valid point on both sides, linear interpolation by index
estimate_between(index, prev_idx, next_idx, times, n) ==
    [confidence |-> <<9 * n - 2 * (next_idx - prev_idx - 1), 10 * n>>,
     estimated_time |->
         times[prev_idx]
         + ((times[next_idx] - times[prev_idx]) * (index - prev_idx))
             \div (next_idx - prev_idx)]

\* lines 291-313: only a previous valid point
estimate_after(index, prev_idx, intervals, enough, times, strat, n) ==
    IF strat = "pattern" /\ enough /\ intervals # <<>>
    THEN [confidence |-> Conf(7, n),
          estimated_time |->
              times[prev_idx]
              + (SumSeq(intervals) \div Len(intervals)) * (index - prev_idx)]
    ELSE [confidence |-> Conf(6, n),
          estimated_time |-> times[prev_idx] + MsPerMinute * (index - prev_idx)]

estimate_before_forward(index, next_idx, times, n) ==
    [confidence |-> Conf(6, n),
     estimated_time |-> times[next_idx] + MsPerMinute * (next_idx - index)]

\* lines 315-320: only a next valid point
estimate_before(index, next_idx, times, n) ==
    [confidence |-> Conf(6, n),
     estimated_time |-> times[next_idx] - MsPerMinute * (next_idx - index)]

\* lines 271-324: the branch taken for the valid points before and after
estimate_from(index, prev_valid_idx, next_valid_idx, times, strat, n, now) ==
    IF Len(prev_valid_idx) > 0 /\ Len(next_valid_idx) > 0
    THEN estimate_between(index, prev_valid_idx[Len(prev_valid_idx)],
                          next_valid_idx[1], times, n)
    ELSE IF Len(prev_valid_idx) > 0
    THEN estimate_after(index, prev_valid_idx[Len(prev_valid_idx)],
                        recent_intervals(prev_valid_idx, times, 1),
                        Len(prev_valid_idx) > 1, times, strat, n)
    ELSE IF Len(next_valid_idx) > 0
    THEN estimate_before(index, next_valid_idx[1], times, n)
    ELSE [confidence |-> Conf(3, n), estimated_time |-> now]

\* _estimate_timestamp: [confidence, estimated_time]; times[i] is
\* pd.to_datetime(df[time_column].iloc[i], dayfirst=True) of a valid row, now
\* is the value of datetime.now()
estimate_timestamp(index, valid_indices, times, strat, n, now) ==
    estimate_from(index,
                  SelectSeq(valid_indices, LAMBDA v : v < index),
                  SelectSeq(valid_indices, LAMBDA v : v > index),
                  times, strat, n, now)

ConfidenceAlwaysAccepted(confidence, confidence_threshold) == TRUE

\* line 231: confidence >= confidence_threshold, both as pairs
ConfidenceAccepted(confidence, confidence_threshold) ==
    confidence[1] * confidence_threshold[2] >= confidence_threshold[1] * confidence[2]

\* lines 231-240: the estimate e for row i is written if it is accepted
accept_estimate(acc, i, original_value, e, confidence_threshold) ==
    IF ConfidenceAccepted(e.confidence, confidence_threshold)
    THEN [rows |-> [acc.rows EXCEPT ![i] = TsCell(TruncSec(e.estimated_time))],
          total_recovered |-> acc.total_recovered + 1,
          recovery_details |->
              Append(acc.recovery_details,
                  [index |-> i - 1,
                   original_value |-> original_value,
                   recovered_value |-> TruncSec(e.estimated_time),
                   confidence |-> e.confidence]),
          confidence_scores |-> Append(acc.confidence_scores, e.confidence)]
    ELSE acc

neighbour_indices_of_current(valid_indices, current) ==
    SelectSeq([k \in DOMAIN current |-> k], LAMBDA k : current[k] # NaT)

\* lines 222, 228, 268-269: the neighbours of a missing row are searched among
\* valid_indices, computed before the loop; current is the column of
\* df_recovered as parsed now
neighbour_indices(valid_indices, current) == valid_indices

\* lines 225-240: the loop over the rows from position i on; acc.rows is the
\* column of df_recovered, written in place and read by _estimate_timestamp
RECURSIVE reconstruct_loop(_, _, _, _, _, _, _, _)
reconstruct_loop(rows, valid_indices, times, strat, confidence_threshold, now, i, acc) ==
    IF i > Len(rows) THEN acc
    ELSE reconstruct_loop(rows, valid_indices, times, strat, confidence_threshold,
             now, i + 1,
             IF times[i] # NaT THEN acc
             ELSE accept_estimate(acc, i, rows[i],
                      estimate_timestamp(i,
                          neighbour_indices(valid_indices, parse_time_string(acc.rows)),
                          parse_time_string(acc.rows), strat, Len(rows), now),
                      confidence_threshold))

\* lines 249-255: the column converted to datetime and cut to whole seconds
normalize_column(rows) ==
    [i \in DOMAIN rows |->
        IF to_datetime(rows[i]) = NaT THEN NullCell
        ELSE TsCell(TruncSec(to_datetime(rows[i])))]

\* the default confidence_threshold = 0.7 of recover_timestrings
DefaultConfidenceThreshold == <<7, 10>>

\* what Series.interpolate(method='time') does on a datetime64 column with a
\* RangeIndex, by pandas version: it raises NotImplementedError, or it
\* returns the column unchanged
InterpolateOutcomes == {"raises", "noop"}

\* the recovery_report of lines 200-205
NewReport(used) ==
    [strategy_used |-> used, total_recovered |-> 0, recovery_details |-> <<>>,
     confidence_scores |-> <<>>, has_average_confidence |-> FALSE,
     average_confidence |-> <<0, 1>>]

\* a call of recover_timestrings that raises exc, or that returns
\* success = False with the message
RecoveryFailure(table, exc, message) ==
    [raised |-> exc, success |-> FALSE, message |-> message,
     recovered_df |-> table, recovery_report |-> NewReport("")]

\* lines 257-262: the successful return value
RecoverySuccess(rows, report) ==
    [raised |-> "", success |-> TRUE, message |-> "",
     recovered_df |-> Table(TRUE, "datetime64", normalize_column(rows)),
     recovery_report |-> report]

\* lines 222-223: the positions pd.to_datetime accepts
valid_positions(datetime_series) ==
    SelectSeq([i \in DOMAIN datetime_series |-> i],
              LAMBDA i : datetime_series[i] # NaT)

\* lines 242-245: the report of the reconstruct / pattern branch, r the
\* result of the loop
reconstruct_report(used, n, r) ==
    [strategy_used |-> used,
     total_recovered |-> r.total_recovered,
     recovery_details |-> r.recovery_details,
     confidence_scores |-> r.confidence_scores,
     has_average_confidence |-> TRUE,
     average_confidence |->
         IF r.confidence_scores # <<>>
         THEN <<SumSeq([k \in DOMAIN r.confidence_scores |-> r.confidence_scores[k][1]]),
                10 * n * Len(r.confidence_scores)>>
         ELSE <<0, 1>>]

\* lines 220-245: the reconstruct / pattern branch
reconstruct(rows, datetime_series, used, confidence_threshold, now) ==
    reconstruct_loop(rows, valid_positions(datetime_series), datetime_series, used,
        confidence_threshold, now, 1,
        [rows |-> rows, total_recovered |-> 0,
         recovery_details |-> <<>>, confidence_scores |-> <<>>])

\* lines 207-262: recovery under the strategy used
recover_using(rows, used, confidence_threshold, lib, now, r) ==
    IF used = "interpolate"
    THEN IF lib = "raises"
         THEN RecoveryFailure(Table(TRUE, "object", rows), "NotImplementedError", "")
         ELSE RecoverySuccess(rows,
                  [NewReport(used) EXCEPT !.has_average_confidence = TRUE,
                                          !.average_confidence = <<85, 100>>])
    ELSE IF used \in {"reconstruct", "pattern"}
    THEN RecoverySuccess(r.rows, reconstruct_report(used, Len(rows), r))
    ELSE RecoverySuccess(rows, NewReport(used))

\* lines 180-205: recovery after the quality analysis
recover_after_analysis(table, analysis, used, confidence_threshold, lib, now) ==
    IF analysis.raised # "" THEN RecoveryFailure(table, analysis.raised, "")
    ELSE IF analysis.valid_count = 0
    THEN RecoveryFailure(table, "", "No valid timestamps found for reference")
    ELSE recover_using(table.rows, used, confidence_threshold, lib, now,
             reconstruct(table.rows, parse_time_string(table.rows), used,
                         confidence_threshold, now))

\* the strategy recover_timestrings uses for a column
strategy_for(rows, strat) ==
    choose_strategy(strat, analyze_timestring_quality(rows).data_loss_percentage)

\* TimeStringRecoveryService.recover_timestrings on a table that has the
\* column; lib is the outcome of Series.interpolate
recover_timestrings(table, strat, confidence_threshold, lib, now) ==
    recover_after_analysis(table, analyze_timestring_quality(table.rows),
        strategy_for(table.rows, strat), confidence_threshold, lib, now)

---------------------------------------------------------------------------
(* services/analysis_service.py : analyze_tables                           *)

Strategies == {"auto", "interpolate", "reconstruct", "pattern", "none"}

\* lines 50-64: what is kept for a table after recover_timestrings returned
keep_recovered(df, recovery_result) ==
    IF recovery_result.raised # ""
    THEN [raised |-> recovery_result.raised, df |-> df]
    ELSE IF recovery_result.success
    THEN IF ~recovery_result.recovery_report.has_average_confidence
         THEN [raised |-> "KeyError", df |-> df]
         ELSE [raised |-> "", df |-> recovery_result.recovered_df]
    ELSE [raised |-> "", df |-> df]

\* lines 33-67: recovery is run when the quality report shows a loss
recover_if_needed(df, quality_report, strat, lib, now) ==
    IF quality_report.raised # ""
    THEN [raised |-> quality_report.raised, df |-> df]
    ELSE IF quality_report.data_loss_percentage[1] > 0
    THEN keep_recovered(df,
             recover_timestrings(df, strat, DefaultConfidenceThreshold, lib, now))
    ELSE [raised |-> "", df |-> df]

\* lines 30-69, one iteration: [raised, df], df the table kept in
\* recovered_table_data
recover_table(df, strat, lib, now) ==
    IF ~df.has_col THEN [raised |-> "", df |-> df]
    ELSE recover_if_needed(df, analyze_timestring_quality(df.rows), strat, lib, now)

\* lines 75-81: datetime columns are cut to whole seconds
strip_milliseconds(df) ==
    IF df.has_col /\ df.dtype = "datetime64"
    THEN [df EXCEPT !.rows = normalize_column(@)]
    ELSE df

\* the exception of the first table, in iteration order, whose recovery raises
first_raised(names, rec) ==
    rec[names[CHOOSE i \in DOMAIN names :
                 /\ rec[names[i]].raised # ""
                 /\ \A j \in DOMAIN names : rec[names[j]].raised # "" => i <= j]].raised

\* lines 159-180: one TableResult per table, m the result of the matching
table_results(names, recovered, minutes, m) ==
    [raised |-> "",
     analysis_results |->
         [n \in RangeOf(names) |->
             [analyze_table(n, recovered[n], minutes, FALSE)
                 EXCEPT !.time_matched = m.all_matching]],
     time_matched |-> m.all_matching,
     debug_info |-> m.debug_info]

\* lines 84-180: matching and per-table analysis of the recovered tables
analyze_recovered(names, recovered, minutes) ==
    table_results(names, recovered, minutes, check_time_matching(names, recovered))

\* lines 24-180 after the recovery loop; rec[n] is the outcome for table n,
\* before the value of self.time_matched when the call starts
finish_analysis(names, rec, minutes, before) ==
    IF \E n \in RangeOf(names) : rec[n].raised # ""
    THEN [raised |-> first_raised(names, rec),
          analysis_results |-> <<>>,
          time_matched |-> before,
          debug_info |-> EmptyDebugInfo]
    ELSE analyze_recovered(names,
             [n \in RangeOf(names) |-> strip_milliseconds(rec[n].df)], minutes)

\* AnalysisService.analyze_tables: the exception that escapes (or ""), and
\* the values of analysis_results, time_matched and debug_info it leaves
analyze_tables(names, data, strat, minutes, lib, now, before) ==
    finish_analysis(names,
        [n \in RangeOf(names) |-> recover_table(data[n], strat, lib, now)],
        minutes, before)

\* lines 308-322: the loop over analysis_results.items(), names the keys
\* not yet visited
RECURSIVE summarize(_, _, _)
summarize(results, names, acc) ==
    IF names = {} THEN acc
    ELSE LET table_name == CHOOSE n \in names : TRUE
             res == results[table_name]
         IN  summarize(results, names \ {table_name},
                 [acc EXCEPT
                    !.tables_with_errors =
                        IF res.error_message # "" THEN @ + 1 ELSE @,
                    !.tables_with_cycles =
                        IF res.error_message = "" /\ res.total_cycles > 0 THEN @ + 1 ELSE @,
                    !.total_cycles =
                        IF res.error_message = "" /\ res.total_cycles > 0
                        THEN @ + res.total_cycles ELSE @,
                    !.table_details =
                        @ \cup {[table |-> table_name,
                                 cycles_found |-> res.total_cycles,
                                 has_error |-> res.error_message # "",
                                 error_message |-> res.error_message,
                                 time_matched |-> res.time_matched]}])

\* AnalysisService.get_analysis_summary
get_analysis_summary(results, matched) ==
    summarize(results, DOMAIN results,
        [total_tables |-> Cardinality(DOMAIN results),
         tables_with_errors |-> 0,
         tables_with_cycles |-> 0,
         total_cycles |-> 0,
         time_matched |-> matched,
         table_details |-> {}])

---------------------------------------------------------------------------
(* services/analysis_service.py : the LOTE tables                          *)

\* lines 199-213: one summary row per cycle; TotalTime is hh:mm:ss of
\* int(duration_minutes * 60) as <<hours, minutes, seconds>>
summary_rows(cycs) ==
    [k \in DOMAIN cycs |->
        [CycleID |-> cycs[k].cycle_id,
         StartTime |-> strftime(cycs[k].start_time),
         EndTime |-> strftime(cycs[k].end_time),
         TotalTime |-> <<(cycs[k].duration_ms \div MsPerSecond) \div 3600,
                         ((cycs[k].duration_ms \div MsPerSecond) % 3600) \div 60,
                         (cycs[k].duration_ms \div MsPerSecond) % 60>>,
         SamplesCount |-> cycs[k].sample_count]]

InCycleHalfOpen(t, cycle) == t >= cycle.start_time /\ t < cycle.end_time

\* line 287: (time_series >= cycle.start_time) & (time_series <= cycle.end_time)
InCycle(t, cycle) == t >= cycle.start_time /\ t <= cycle.end_time

\* lines 286-288: the loop over result.cycles from position i on, for the row
\* with timestamp t; current is the row's CycleID so far
RECURSIVE assign_cycle_id(_, _, _, _)
assign_cycle_id(t, cycs, i, current) ==
    IF i > Len(cycs) THEN current
    ELSE assign_cycle_id(t, cycs, i + 1,
             IF InCycle(t, cycs[i]) THEN cycs[i].cycle_id ELSE current)

\* lines 268-288: the rows with a valid timestamp, sorted by time, each with
\* its CycleID
mapping_rows(reference_df, cycs) ==
    LET time_series == sort_values(dropna(parse_time_string(reference_df.rows)))
    IN  [k \in DOMAIN time_series |->
            [TimeString |-> time_series[k],
             CycleID |-> assign_cycle_id(time_series[k], cycs, 1, 0)]]

\* a generator call that raises exc
LoteFailure(exc) == [raised |-> exc, summary |-> <<>>, data |-> <<>>]

\* AnalysisService.generate_lotedata_summary
generate_lotedata_summary(results, reference_table_name) ==
    IF reference_table_name \notin DOMAIN results THEN LoteFailure("ValueError")
    ELSE IF results[reference_table_name].error_message # ""
    THEN LoteFailure("ValueError")
    ELSE IF results[reference_table_name].cycles = <<>> THEN LoteFailure("ValueError")
    ELSE [raised |-> "",
          summary |-> summary_rows(results[reference_table_name].cycles),
          data |-> <<>>]

\* AnalysisService.generate_lotedata_detailed_mapping
generate_lotedata_detailed_mapping(results, reference_table_name, reference_df) ==
    IF reference_table_name \notin DOMAIN results THEN LoteFailure("ValueError")
    ELSE IF results[reference_table_name].error_message # ""
    THEN LoteFailure("ValueError")
    ELSE IF ~reference_df.has_col THEN LoteFailure("KeyError")
    ELSE [raised |-> "",
          summary |-> <<>>,
          data |-> mapping_rows(reference_df, results[reference_table_name].cycles)]

\* AnalysisService.generate_both_lote_tables
generate_both_lote_tables(results, reference_table_name, reference_df) ==
    IF reference_table_name \notin DOMAIN results THEN LoteFailure("ValueError")
    ELSE IF results[reference_table_name].error_message # ""
    THEN LoteFailure("ValueError")
    ELSE IF results[reference_table_name].cycles = <<>> THEN LoteFailure("ValueError")
    ELSE IF ~reference_df.has_col THEN LoteFailure("KeyError")
    ELSE [raised |-> "",
          summary |-> summary_rows(results[reference_table_name].cycles),
          data |-> mapping_rows(reference_df, results[reference_table_name].cycles)]

---------------------------------------------------------------------------
(* Inputs and the state after construction.                                *)

\* the tables of at most n rows with cells from Cells; a table without the
\* time column has no rows or one row
TableInputs(Cells, n) ==
    {Table(TRUE, "object", r) : r \in SeqsUpTo(Cells, n)}
    \cup {Table(FALSE, "object", r) : r \in {<<>>, <<NullCell>>}}

\* the value datetime.now() returns
NowValues == {900000}

NoComparison ==
    [matches |-> TRUE, reasons |-> <<>>, stats |-> {}, mismatch_details |-> <<>>,
     row_comparisons |-> <<>>]

\* the fields <<dd, mm, yyyy, HH, MM, SS>> of the texts given to
\* _try_fix_common_issues
FixDays == {15, 29, 30, 31, 32}
FixMonths == {2, 4, 12, 13}
FixYears == {2023, 2024, 2031}
FixHours == {10, 24, 31, 49}
FixMinutes == {0, 31}
FixSeconds == {0, 30}
FixTexts ==
    {<<d, m, y, hh, mi, ss>> : d \in FixDays, m \in FixMonths, y \in FixYears,
                               hh \in FixHours, mi \in FixMinutes, ss \in FixSeconds}

\* datetime.strptime(date_part, '%d/%m/%Y') succeeds
strptime_date(f) ==
    f[3] \in 1..9999 /\ f[2] \in 1..12 /\ f[1] \in 1..DaysInMonth(f[2], f[3])

\* the time-overflow fix: hour modulo 24, the date moved on by hour div 24
fix_time_overflow(f) ==
    LET new_date == NormalizeDate(f[1] + (f[4] \div 24), f[2], f[3])
    IN  [value |-> <<new_date[1], new_date[2], new_date[3], f[4] % 24, f[5], f[6]>>,
         fix_type |-> "time_overflow"]

\* (datetime(year, month % 12 + 1, 1) - timedelta(days=1)).day
days_in_month(m, y) == NormalizeDate(0, (m % 12) + 1, y)[1]

\* str.replace(day, fixed_day) inside a two-digit field
replace_in_field(x, day, fixed_day) == IF x = day THEN fixed_day ELSE x

\* str.replace(day, fixed_day) inside the four-digit year: the occurrences
\* that do not overlap, from the left
replace_in_year(y, day, fixed_day) ==
    IF y \div 100 = day
    THEN fixed_day * 100 + replace_in_field(y % 100, day, fixed_day)
    ELSE IF (y \div 10) % 100 = day
    THEN (y \div 1000) * 1000 + fixed_day * 10 + (y % 10)
    ELSE (y \div 100) * 100 + replace_in_field(y % 100, day, fixed_day)

\* original.replace(day, str(fixed_day)): every occurrence in the text
replace_day(f, day, fixed_day) ==
    <<replace_in_field(f[1], day, fixed_day), replace_in_field(f[2], day, fixed_day),
      replace_in_year(f[3], day, fixed_day), replace_in_field(f[4], day, fixed_day),
      replace_in_field(f[5], day, fixed_day), replace_in_field(f[6], day, fixed_day)>>

\* the date-overflow fix
fix_date_overflow(f) ==
    [value |-> replace_day(f, f[1], days_in_month(f[2], f[3])),
     fix_type |-> "date_overflow"]

\* _try_fix_common_issues on a text dd/mm/yyyy HH:MM:SS
try_fix_common_issues(f) ==
    IF f[4] >= 24 /\ strptime_date(f) THEN fix_time_overflow(f)
    ELSE IF f[3] \in 1..9999 /\ f[2] \in 1..12 /\ f[1] > days_in_month(f[2], f[3])
    THEN fix_date_overflow(f)
    ELSE [value |-> f, fix_type |-> "unfixable"]

\* the tables of a sequence of analyze_tables calls: an empty column, one
\* timestamp, another timestamp, one null, and a table without the column
CallTables ==
    {Table(TRUE, "object", <<>>), Table(TRUE, "object", <<TsCell(600000)>>),
     Table(TRUE, "object", <<TsCell(660000)>>), Table(TRUE, "object", <<NullCell>>),
     Table(FALSE, "object", <<>>)}

\* the input mappings of a sequence of analyze_tables calls: up to two tables
CallNames == {SubSeq(Names, 1, k) : k \in 0..(Len(Names) - 1)}

\* no get_analysis_summary call has returned since the last analyze_tables
NoSummary ==
    [total_tables |-> 0, tables_with_errors |-> 0, tables_with_cycles |-> 0,
     total_cycles |-> 0, time_matched |-> FALSE, table_details |-> {}]

\* the cells of the columns given to analyze_timestring_quality
QualityCells == {TsCell(600000), NullCell, BadCell, OverflowCell(720000)}

\* no analyze_timestring_quality call has returned yet
NoQuality ==
    [error |-> "",
     analysis |-> [total_rows |-> 0, valid_count |-> 0, invalid_count |-> 0,
                   null_count |-> 0, data_loss_percentage |-> <<0, 1>>, raised |-> ""]]

\* lines 23-24 and 26-72: the returned dictionary, error for a table without
\* the column
quality_of(table) ==
    IF ~table.has_col THEN [error |-> "Column 'TimeString' not found",
                            analysis |-> NoQuality.analysis]
    ELSE [error |-> "", analysis |-> analyze_timestring_quality(table.rows)]

\* no _try_fix_common_issues call has returned yet
NotFixed == [value |-> <<>>, fix_type |-> ""]

\* no recover_timestrings call has returned yet
NoRecovery == RecoveryFailure(Table(FALSE, "object", <<>>), "", "")

\* AnalysisService.__init__ and the locals before any call
InitService ==
    /\ pc = "ready"
    /\ op = ""
    /\ args = <<>>
    /\ fault = FALSE
    /\ strategy = "auto"
    /\ cycles = <<>>
    /\ result = NoResult
    /\ all_matching = FALSE
    /\ debug_info = EmptyDebugInfo
    /\ comparison = NoComparison
    /\ analysis_results = <<>>
    /\ time_matched = FALSE
    /\ raised = ""
    /\ recovery_confidence = DefaultConfidenceThreshold
    /\ recovery = NoRecovery
    /\ lote_data = <<>>
    /\ lote_summary = <<>>
    /\ fixed = NotFixed
    /\ quality = NoQuality
    /\ analysis_summary = NoSummary

\* one table and a threshold, for detect_cycles and analyze_table
InitSegment ==
    /\ InitService
    /\ time_threshold_minutes \in Thresholds
    /\ table_names = <<"A">>
    /\ table_data \in [{"A"} -> TableInputs(DetectCells, MaxLen)]

\* up to three tables, for check_time_matching
InitMatch ==
    /\ InitService
    /\ time_threshold_minutes = 1
    /\ table_names \in {SubSeq(Names, 1, k) : k \in 0..Len(Names)}
    /\ table_data \in [RangeOf(table_names) -> TableInputs(MatchCells, MaxRows)]

\* up to two tables, for analyze_tables
InitBatch ==
    /\ InitService
    /\ time_threshold_minutes = 1
    /\ table_names \in {SubSeq(Names, 1, k) : k \in 0..(Len(Names) - 1)}
    /\ table_data \in [RangeOf(table_names) -> TableInputs(BatchCells, MaxRows)]

\* one table that has the time column, for recover_timestrings
InitRecover ==
    /\ InitService
    /\ time_threshold_minutes = 1
    /\ table_names = <<"A">>
    /\ table_data \in [{"A"} -> {Table(TRUE, "object", r) :
                                    r \in SeqsUpTo(RecoverCells, MaxCol)}]

\* up to two tables, for a sequence of analyze_tables calls on one service
InitCalls ==
    /\ InitService
    /\ time_threshold_minutes = 1
    /\ table_names \in CallNames
    /\ table_data \in [RangeOf(table_names) -> CallTables]

\* one table, for analyze_timestring_quality
InitQuality ==
    /\ InitService
    /\ time_threshold_minutes = 1
    /\ table_names = <<"A">>
    /\ table_data \in [{"A"} -> TableInputs(QualityCells, MaxCol)]

\* one text, for _try_fix_common_issues
InitFix ==
    /\ InitService
    /\ time_threshold_minutes = 1
    /\ table_names = <<"A">>
    /\ table_data \in [{"A"} -> {Table(TRUE, "object", <<[kind |-> "text", t |-> f]>>) :
                                    f \in FixTexts}]

\* one table and a threshold, for analyze_tables followed by the generation
\* of the LOTE tables
InitLote ==
    /\ InitService
    /\ time_threshold_minutes \in Thresholds
    /\ table_names = <<"A">>
    /\ table_data \in [{"A"} -> TableInputs(LoteCells, MaxLen)]

---------------------------------------------------------------------------
(* Operations.                                                             *)

\* the service state an analyze_tables call r leaves
ServiceAfter(r) ==
    /\ raised' = r.raised
    /\ analysis_results' = r.analysis_results
    /\ time_matched' = r.time_matched
    /\ debug_info' = r.debug_info

\* the values a check_time_matching call m returns
MatchingAfter(m) ==
    /\ all_matching' = m.all_matching
    /\ debug_info' = m.debug_info

\* a call of CycleAnalyzer.detect_cycles on the column of table A
DetectCycles ==
    /\ pc = "ready"
    /\ table_names # <<>>
    /\ table_data[table_names[1]].has_col
    /\ cycles' = detect_cycles(table_data[table_names[1]].rows, time_threshold_minutes)
    /\ pc' = "done"
    /\ op' = "detect_cycles"
    /\ UNCHANGED <<args, fault, time_threshold_minutes, strategy, table_names, table_data, result,
                   all_matching, debug_info, comparison, analysis_results,
                   time_matched, raised,
                   recovery_confidence, recovery, lote_data, lote_summary, fixed, quality,
                   analysis_summary>>

\* a call of CycleAnalyzer.analyze_table on table A; fault: detect_cycles raises
AnalyzeTable ==
    /\ pc = "ready"
    /\ table_names # <<>>
    /\ \E f \in BOOLEAN :
          /\ f => (table_data[table_names[1]].has_col
                    /\ table_data[table_names[1]].rows # <<>>)
          /\ fault' = f
          /\ result' = analyze_table(table_names[1], table_data[table_names[1]],
                                     time_threshold_minutes, f)
    /\ pc' = "done"
    /\ op' = "analyze_table"
    /\ UNCHANGED <<args, time_threshold_minutes, strategy, table_names, table_data, cycles,
                   all_matching, debug_info, comparison, analysis_results,
                   time_matched, raised,
                   recovery_confidence, recovery, lote_data, lote_summary, fixed, quality,
                   analysis_summary>>

\* a call of CycleAnalyzer.check_time_matching on the input mapping
CheckTimeMatching ==
    /\ pc = "ready"
    /\ MatchingAfter(check_time_matching(table_names, table_data))
    /\ pc' = "done"
    /\ op' = "check_time_matching"
    /\ UNCHANGED <<args, fault, time_threshold_minutes, strategy, table_names, table_data, cycles,
                   result, comparison, analysis_results, time_matched, raised,
                   recovery_confidence, recovery, lote_data, lote_summary, fixed, quality,
                   analysis_summary>>

\* a call of CycleAnalyzer._compare_time_series on the parsed columns of two
\* tables, the first as reference
CompareTimeSeries ==
    /\ pc = "ready"
    /\ \E i, j \in DOMAIN table_names :
          /\ i # j
          /\ table_data[table_names[i]].has_col
          /\ table_data[table_names[j]].has_col
          /\ comparison' =
                compare_time_series(
                    dropna(parse_time_string(table_data[table_names[i]].rows)),
                    dropna(parse_time_string(table_data[table_names[j]].rows)),
                    table_names[i], table_names[j])
          /\ args' = <<table_names[i], table_names[j]>>
    /\ pc' = "done"
    /\ op' = "_compare_time_series"
    /\ UNCHANGED <<fault, time_threshold_minutes, strategy, table_names, table_data, cycles,
                   result, all_matching, debug_info, analysis_results, time_matched,
                   raised, recovery_confidence, recovery, lote_data, lote_summary, fixed, quality,
                   analysis_summary>>

\* a call of AnalysisService.analyze_tables on the input mapping
AnalyzeTables ==
    /\ pc = "ready"
    /\ \E strat \in Strategies, lib \in InterpolateOutcomes, now \in NowValues :
          /\ strategy' = strat
          /\ ServiceAfter(analyze_tables(table_names, table_data, strat,
                              time_threshold_minutes, lib, now, time_matched))
    /\ pc' = "done"
    /\ op' = "analyze_tables"
    /\ UNCHANGED <<args, fault, time_threshold_minutes, table_names, table_data, cycles, result,
                   all_matching, comparison,
                   recovery_confidence, recovery, lote_data, lote_summary, fixed, quality,
                   analysis_summary>>

\* a later call of AnalysisService.analyze_tables on the same service, on a
\* new input mapping
AnalyzeTablesAgain ==
    /\ pc = "done"
    /\ op \in {"analyze_tables", "get_analysis_summary"}
    /\ \E names \in CallNames, strat \in Strategies, lib \in InterpolateOutcomes,
          now \in NowValues :
          \E data \in [RangeOf(names) -> CallTables] :
              /\ table_names' = names
              /\ table_data' = data
              /\ strategy' = strat
              /\ ServiceAfter(analyze_tables(names, data, strat, time_threshold_minutes,
                                             lib, now, time_matched))
    /\ analysis_summary' = NoSummary
    /\ pc' = "done"
    /\ op' = "analyze_tables"
    /\ UNCHANGED <<args, fault, time_threshold_minutes, cycles, result, all_matching,
                   comparison, recovery_confidence, recovery, lote_data, lote_summary,
                   fixed, quality>>

\* a call of AnalysisService.get_analysis_summary after analyze_tables
GetAnalysisSummary ==
    /\ pc = "done"
    /\ op = "analyze_tables"
    /\ analysis_summary' = get_analysis_summary(analysis_results, time_matched)
    /\ op' = "get_analysis_summary"
    /\ UNCHANGED <<pc, args, fault, time_threshold_minutes, strategy, table_names,
                   table_data, cycles, result, all_matching, debug_info, comparison,
                   analysis_results, time_matched, raised, recovery_confidence, recovery,
                   lote_data, lote_summary, fixed, quality>>

\* a call of TimeStringRecoveryService.recover_timestrings on table A
RecoverTimestrings ==
    /\ pc = "ready"
    /\ table_names # <<>>
    /\ table_data[table_names[1]].has_col
    /\ \E strat \in Strategies, ct \in ConfidenceThresholds,
          lib \in InterpolateOutcomes, now \in NowValues :
          /\ strategy' = strat
          /\ recovery_confidence' = ct
          /\ recovery' = recover_timestrings(table_data[table_names[1]], strat, ct,
                                             lib, now)
    /\ pc' = "done"
    /\ op' = "recover_timestrings"
    /\ UNCHANGED <<args, fault, time_threshold_minutes, table_names, table_data, cycles,
                   result, all_matching, debug_info, comparison, analysis_results,
                   time_matched, raised, lote_data, lote_summary, fixed, quality,
                   analysis_summary>>

\* a call of TimeStringRecoveryService.analyze_timestring_quality on table A
AnalyzeTimestringQuality ==
    /\ pc = "ready"
    /\ table_names # <<>>
    /\ raised' = quality_of(table_data[table_names[1]]).analysis.raised
    /\ quality' = IF quality_of(table_data[table_names[1]]).analysis.raised = ""
                  THEN quality_of(table_data[table_names[1]])
                  ELSE quality
    /\ args' = <<table_names[1]>>
    /\ pc' = "done"
    /\ op' = "analyze_timestring_quality"
    /\ UNCHANGED <<fault, time_threshold_minutes, strategy, table_names, table_data, cycles,
                   result, all_matching, debug_info, comparison, analysis_results,
                   time_matched, recovery_confidence, recovery, lote_data, lote_summary,
                   fixed, analysis_summary>>

\* a call of TimeStringRecoveryService._try_fix_common_issues on the one text
\* of table A
TryFixCommonIssues ==
    /\ pc = "ready"
    /\ table_names # <<>>
    /\ Len(table_data[table_names[1]].rows) = 1
    /\ table_data[table_names[1]].rows[1].kind = "text"
    /\ fixed' = try_fix_common_issues(table_data[table_names[1]].rows[1].t)
    /\ args' = <<table_data[table_names[1]].rows[1]>>
    /\ pc' = "done"
    /\ op' = "_try_fix_common_issues"
    /\ UNCHANGED <<fault, time_threshold_minutes, strategy, table_names, table_data, cycles,
                   result, all_matching, debug_info, comparison, analysis_results,
                   time_matched, raised, recovery_confidence, recovery, lote_data,
                   lote_summary, quality, analysis_summary>>

\* the service state a generator call g leaves, called for table n
LoteAfter(n, g, name) ==
    /\ pc = "done"
    /\ op = "analyze_tables"
    /\ raised' = g.raised
    /\ lote_summary' = g.summary
    /\ lote_data' = g.data
    /\ args' = <<n>>
    /\ pc' = "generated"
    /\ op' = name
    /\ UNCHANGED <<fault, time_threshold_minutes, strategy, table_names, table_data, cycles,
                   result, all_matching, debug_info, comparison, analysis_results,
                   time_matched, recovery_confidence, recovery, fixed, quality,
                   analysis_summary>>

\* a call of AnalysisService.generate_lotedata_summary after analyze_tables
GenerateLotedataSummary ==
    \E n \in RangeOf(table_names) :
        LoteAfter(n, generate_lotedata_summary(analysis_results, n),
                  "generate_lotedata_summary")

\* a call of AnalysisService.generate_lotedata_detailed_mapping after
\* analyze_tables, with the table as it is stored
GenerateLotedataDetailedMapping ==
    \E n \in RangeOf(table_names) :
        LoteAfter(n, generate_lotedata_detailed_mapping(analysis_results, n, table_data[n]),
                  "generate_lotedata_detailed_mapping")

\* a call of AnalysisService.generate_both_lote_tables after analyze_tables,
\* with the table as it is stored
GenerateBothLoteTables ==
    \E n \in RangeOf(table_names) :
        LoteAfter(n, generate_both_lote_tables(analysis_results, n, table_data[n]),
                  "generate_both_lote_tables")

NextSegment == DetectCycles \/ AnalyzeTable

NextLote ==
    \/ AnalyzeTables
    \/ GenerateLotedataSummary
    \/ GenerateLotedataDetailedMapping
    \/ GenerateBothLoteTables

NextRecover == RecoverTimestrings

NextFix == TryFixCommonIssues

NextQuality == AnalyzeTimestringQuality

NextCalls == AnalyzeTables \/ AnalyzeTablesAgain \/ GetAnalysisSummary

NextMatch == CheckTimeMatching \/ CompareTimeSeries

Next == AnalyzeTables

\* detect_cycles and analyze_table on one table
SpecSegment == InitSegment /\ [][NextSegment]_vars

\* check_time_matching and _compare_time_series on up to three tables
SpecMatch == InitMatch /\ [][NextMatch]_vars

\* recover_timestrings on one table
SpecRecover == InitRecover /\ [][NextRecover]_vars

\* a sequence of analyze_tables calls on one service, with get_analysis_summary
SpecCalls == InitCalls /\ [][NextCalls]_vars

\* analyze_timestring_quality on one table
SpecQuality == InitQuality /\ [][NextQuality]_vars

\* _try_fix_common_issues on one text
SpecFix == InitFix /\ [][NextFix]_vars

\* analyze_tables on one table, then the generation of the LOTE tables
SpecLote == InitLote /\ [][NextLote]_vars

\* analyze_tables on up to two tables
Spec == InitBatch /\ [][Next]_vars

---------------------------------------------------------------------------
(* Properties of detect_cycles (SpecSegment).                              *)

Detected == pc = "done" /\ op = "detect_cycles"

\* the column detect_cycles was given
InputSeries == table_data[table_names[1]].rows

\* the entries of the input that parse to a timestamp, in input order
ValidInput == SelectSeq(parse_time_string(InputSeries), LAMBDA x : x # NaT)

\* the valid timestamps in ascending order
ValidSorted == sort_values(ValidInput)

SampleCounts(cs) == [k \in DOMAIN cs |-> cs[k].sample_count]

\* positions in the sorted series of the first and last sample of cycle k
FirstIndex(cs, k) == 1 + SumSeq(SubSeq(SampleCounts(cs), 1, k - 1))

LastIndex(cs, k) == SumSeq(SubSeq(SampleCounts(cs), 1, k))

\* the cycle that holds the sample at position i of the sorted series
CycleIndexOf(cs, i) ==
    CHOOSE k \in DOMAIN cs : FirstIndex(cs, k) <= i /\ i <= LastIndex(cs, k)

\* C1: the cycles are consecutive runs of the sorted valid timestamps, and
\* two neighbouring timestamps lie in different cycles exactly when their
\* difference is strictly greater than the threshold (a gap equal to the
\* threshold does not split)
C1_GapLaw ==
    Detected =>
        /\ SumSeq(SampleCounts(cycles)) = Len(ValidSorted)
        /\ \A k \in DOMAIN cycles : cycles[k].sample_count >= 1
        /\ \A k \in DOMAIN cycles :
              /\ cycles[k].start_time = ValidSorted[FirstIndex(cycles, k)]
              /\ cycles[k].end_time = ValidSorted[LastIndex(cycles, k)]
        /\ \A i \in 1..(Len(ValidSorted) - 1) :
              (CycleIndexOf(cycles, i) # CycleIndexOf(cycles, i + 1))
              <=> (ValidSorted[i + 1] - ValidSorted[i]
                     > time_threshold_minutes * MsPerMinute)

\* a run with a gap equal to the threshold kept together and a longer gap split
C1_Witness ==
    /\ Detected
    /\ time_threshold_minutes = 1
    /\ Len(cycles) = 2
    /\ \E i \in 1..(Len(ValidSorted) - 1) :
          ValidSorted[i + 1] - ValidSorted[i] = MsPerMinute
    /\ \E i \in 1..(Len(ValidSorted) - 1) :
          ValidSorted[i + 1] - ValidSorted[i] > MsPerMinute

\* C2: the sample counts of the cycles add up to the number of input entries
\* that parse to a timestamp, and every cycle counts at least one sample
C2_CycleCoverage ==
    Detected =>
        /\ SumSeq(SampleCounts(cycles))
             = Cardinality({i \in DOMAIN InputSeries : InputSeries[i].kind = "ts"})
        /\ \A k \in DOMAIN cycles : cycles[k].sample_count >= 1

\* several cycles, one of them with several samples, from a column that also
\* holds entries that do not parse
C2_Witness ==
    /\ Detected
    /\ Len(cycles) >= 2
    /\ \E k \in DOMAIN cycles : cycles[k].sample_count >= 2
    /\ \E i \in DOMAIN InputSeries : InputSeries[i].kind # "ts"

\* C3 as stated: every cycle has start_time <= end_time and each cycle ends
\* strictly before the next one starts
C3_StrictlySeparated ==
    Detected =>
        /\ \A k \in DOMAIN cycles : cycles[k].start_time <= cycles[k].end_time
        /\ \A k \in 1..(Len(cycles) - 1) :
              cycles[k].end_time < cycles[k + 1].start_time

\* C3 amended: every cycle has start_time <= end_time, no cycle ends after the
\* next one starts, and it ends strictly before it when the threshold is not
\* negative
C3_Separated ==
    Detected =>
        /\ \A k \in DOMAIN cycles : cycles[k].start_time <= cycles[k].end_time
        /\ \A k \in 1..(Len(cycles) - 1) :
              /\ cycles[k].end_time <= cycles[k + 1].start_time
              /\ time_threshold_minutes >= 0
                    => cycles[k].end_time < cycles[k + 1].start_time

\* two cycles under a non-negative threshold, the first spanning a run
C3_Witness ==
    /\ Detected
    /\ time_threshold_minutes >= 0
    /\ Len(cycles) >= 2
    /\ cycles[1].start_time < cycles[1].end_time

\* C4: the cycle ids are 1..N in list order, which is the chronological order
\* of the start times
C4_SequentialIds ==
    Detected =>
        /\ \A k \in DOMAIN cycles : cycles[k].cycle_id = k
        /\ \A k \in 1..(Len(cycles) - 1) :
              cycles[k].start_time <= cycles[k + 1].start_time

\* three cycles
C4_Witness == Detected /\ Len(cycles) >= 3

---------------------------------------------------------------------------
(* Properties of check_time_matching and _compare_time_series (SpecMatch). *)

Matched == pc = "done" /\ op = "check_time_matching"

Compared == pc = "done" /\ op = "_compare_time_series"

\* the valid timestamps of table n, in row order
ValidSeq(n) == SelectSeq(parse_time_string(table_data[n].rows), LAMBDA x : x # NaT)

\* the tables that take part in the comparison
Usable == {n \in RangeOf(table_names) : table_data[n].has_col /\ ValidSeq(n) # <<>>}

SummaryOf == debug_info.summary

\* C5 as stated: two or more tables with identical valid timestamp sequences
\* give all_matching = true, and every comparison matches without mismatch
\* details
C5_IdenticalSequencesMatch ==
    (/\ Matched
     /\ Len(table_names) >= 2
     /\ \A n \in RangeOf(table_names) : table_data[n].has_col
     /\ \A n, m \in RangeOf(table_names) : ValidSeq(n) = ValidSeq(m))
    => /\ all_matching
       /\ \A k \in DOMAIN SummaryOf :
             /\ SummaryOf[k].comparison.matches
             /\ SummaryOf[k].comparison.mismatch_details = <<>>

\* C5 amended: two or more tables with identical valid timestamp sequences
\* that hold at least one timestamp give all_matching = true, every other
\* table is compared, and every comparison matches without mismatch details
C5_Exactness ==
    (/\ Matched
     /\ Len(table_names) >= 2
     /\ \A n \in RangeOf(table_names) : table_data[n].has_col /\ ValidSeq(n) # <<>>
     /\ \A n, m \in RangeOf(table_names) : ValidSeq(n) = ValidSeq(m))
    => /\ all_matching
       /\ Len(SummaryOf) = Len(table_names) - 1
       /\ \A k \in DOMAIN SummaryOf :
             /\ SummaryOf[k].comparison.matches
             /\ SummaryOf[k].comparison.mismatch_details = <<>>

\* three tables with the same two valid timestamps
C5_Witness ==
    /\ Matched
    /\ Len(table_names) = 3
    /\ \A n \in RangeOf(table_names) : table_data[n].has_col /\ Len(ValidSeq(n)) = 2
    /\ \A n, m \in RangeOf(table_names) : ValidSeq(n) = ValidSeq(m)
    /\ all_matching

\* C6: all_matching = true only if every usable table other than the
\* reference has as many valid timestamps as the reference and agrees with it
\* at every row of the common prefix
C6_MatchingOnlyIfEqual ==
    (Matched /\ all_matching) =>
        /\ debug_info.reference_table \in Usable
        /\ \A n \in Usable \ {debug_info.reference_table} :
              /\ Len(ValidSeq(n)) = Len(ValidSeq(debug_info.reference_table))
              /\ \A i \in 1..Min2(Len(ValidSeq(n)),
                                  Len(ValidSeq(debug_info.reference_table))) :
                    ValidSeq(n)[i] = ValidSeq(debug_info.reference_table)[i]

\* a matching verdict over two usable tables while a third one is excluded
C6_Witness ==
    /\ Matched
    /\ all_matching
    /\ Cardinality(Usable) = 2
    /\ Len(table_names) = 3

\* the "extra rows at the end" reasons of a comparison, as <<side, count>>
ExtraRowReasons(cmp) ==
    {<<cmp.reasons[k].a, cmp.reasons[k].n>> :
        k \in {j \in DOMAIN cmp.reasons : cmp.reasons[j].kind = "extra_rows_at_end"}}

\* the comparison of test against ref reports the length mismatch
ReportsLengthMismatch(cmp, ref, test) ==
    Len(ValidSeq(ref)) # Len(ValidSeq(test)) =>
        /\ ~cmp.matches
        /\ ExtraRowReasons(cmp) =
              {<<IF Len(ValidSeq(ref)) > Len(ValidSeq(test)) THEN ref ELSE test,
                 Abs(Len(ValidSeq(ref)) - Len(ValidSeq(test)))>>}

\* C7: a comparison of two series of different lengths reports matches =
\* false and one "extra rows at the end" reason, for the longer side, with
\* the absolute length difference as its count
C7_LengthMismatch ==
    /\ Matched =>
          \A k \in DOMAIN SummaryOf :
              ReportsLengthMismatch(SummaryOf[k].comparison,
                                    debug_info.reference_table, SummaryOf[k].table)
    /\ Compared => ReportsLengthMismatch(comparison, args[1], args[2])

\* a table one row shorter than the reference with an identical prefix
C7_Witness ==
    /\ Matched
    /\ \E k \in DOMAIN SummaryOf :
          /\ Len(ValidSeq(debug_info.reference_table)) = 2
          /\ Len(ValidSeq(SummaryOf[k].table)) = 1
          /\ ValidSeq(SummaryOf[k].table)[1] = ValidSeq(debug_info.reference_table)[1]
          /\ SummaryOf[k].comparison.mismatch_details = <<>>
          /\ ~SummaryOf[k].comparison.matches

---------------------------------------------------------------------------
(* Properties of analyze_tables (Spec) and analyze_table (SpecSegment).    *)

BatchDone == pc = "done" /\ op = "analyze_tables"

\* C8: analyze_tables raises nothing and returns one TableResult per input
\* table, whatever the tables hold
C8_OneResultPerTable ==
    BatchDone =>
        /\ raised = ""
        /\ DOMAIN analysis_results = RangeOf(table_names)

Analyzed == pc = "done" /\ op = "analyze_table"

\* the table analyze_table was given
InputTable == table_data[table_names[1]]

\* C9: analyze_table raises nothing; a table without the column gives the
\* column error whatever its rows, a table with the column and no rows the
\* empty-table error, a raising segmentation an error; an error result has
\* no cycles and total_cycles = 0, any other result has total_cycles =
\* len(cycles)
C9_ResultShape ==
    Analyzed =>
        /\ raised = ""
        /\ ~InputTable.has_col
              => result.error_message = "Column 'TimeString' not found"
        /\ (InputTable.has_col /\ InputTable.rows = <<>>)
              => result.error_message = "Table is empty"
        /\ (InputTable.has_col /\ InputTable.rows # <<>>)
              => result.error_message = (IF fault THEN "Analysis error" ELSE "")
        /\ result.error_message # ""
              => (result.cycles = <<>> /\ result.total_cycles = 0)
        /\ result.error_message = ""
              => result.total_cycles = Len(result.cycles)
        /\ result.table_name = table_names[1]

\* a table with neither the column nor rows gets the column error
C9_Witness ==
    /\ Analyzed
    /\ ~InputTable.has_col
    /\ InputTable.rows = <<>>
    /\ result.error_message = "Column 'TimeString' not found"

\* the column is present, has rows, and none of them parses
NothingParses ==
    /\ InputTable.has_col
    /\ InputTable.rows # <<>>
    /\ \A i \in DOMAIN InputTable.rows : InputTable.rows[i].kind # "ts"

\* C10 as stated: a column with rows of which none parses gives a result
\* with error_message set and no cycles
C10_ParseFailureIsError ==
    (Analyzed /\ NothingParses) =>
        (result.error_message # "" /\ result.cycles = <<>>)

\* C10 amended: a column with rows of which none parses gives, unless the
\* segmentation raises, a result with no cycles, total_cycles = 0 and an
\* empty error_message
C10_ParseFailureIsEmptyResult ==
    (Analyzed /\ NothingParses /\ ~fault) =>
        /\ result.error_message = ""
        /\ result.cycles = <<>>
        /\ result.total_cycles = 0

\* a column of two entries that do not parse, analysed without an error
C10_Witness ==
    /\ Analyzed
    /\ NothingParses
    /\ ~fault
    /\ Len(InputTable.rows) >= 2
    /\ result.error_message = ""

---------------------------------------------------------------------------
(* Properties of detect_cycles (SpecSegment), continued.                   *)

\* C19: a column with exactly one valid timestamp gives exactly one cycle,
\* with cycle_id 1, start_time = end_time = that timestamp, duration 0 and
\* sample_count 1
C19_SingleSample ==
    (Detected /\ Len(ValidInput) = 1)
    => cycles = <<[cycle_id |-> 1, start_time |-> ValidInput[1],
                   end_time |-> ValidInput[1], sample_count |-> 1,
                   duration_ms |-> 0]>>

\* the single valid timestamp stands among null and unparseable cells
C19_Witness ==
    /\ Detected
    /\ Len(ValidInput) = 1
    /\ Len(InputSeries) = 3
    /\ Len(cycles) = 1

---------------------------------------------------------------------------
(* Properties of check_time_matching (SpecMatch), continued.               *)

\* the reason recorded for a table that is left out of the comparison
ExclusionReason(n) ==
    IF table_data[n].has_col THEN "no_valid_timestamps" ELSE "missing_column"

\* C16: every table without the time column or without a valid timestamp is
\* left out of the comparison (it is neither the reference nor compared) and
\* has a reason and an error entry recorded; with fewer than two usable tables
\* (also for an empty mapping) the verdict is false with a non-empty list of
\* reasons
C16_UnusableTablesExcluded ==
    Matched
    => /\ \A n \in RangeOf(table_names) \ Usable :
             /\ \E k \in DOMAIN debug_info.mismatch_reasons :
                   /\ debug_info.mismatch_reasons[k].kind = ExclusionReason(n)
                   /\ debug_info.mismatch_reasons[k].a = n
             /\ \E k \in DOMAIN debug_info.tables_checked :
                   /\ debug_info.tables_checked[k].table = n
                   /\ debug_info.tables_checked[k].status = "error"
             /\ debug_info.reference_table # n
             /\ \A k \in DOMAIN SummaryOf : SummaryOf[k].table # n
       /\ Cardinality(Usable) < 2
          => /\ ~all_matching
             /\ debug_info.mismatch_reasons # <<>>

\* three tables, one without the column and one without a valid timestamp,
\* leave a single usable table
C16_Witness ==
    /\ Matched
    /\ Len(table_names) = 3
    /\ Cardinality(Usable) = 1
    /\ \E n \in RangeOf(table_names) : ~table_data[n].has_col
    /\ \E n \in RangeOf(table_names) : table_data[n].has_col /\ ValidSeq(n) = <<>>
    /\ ~all_matching

\* the position in the input mapping of the usable table with the most valid
\* timestamps that comes first
FirstLongest ==
    CHOOSE i \in DOMAIN table_names :
        /\ table_names[i] \in Usable
        /\ \A j \in DOMAIN table_names :
              table_names[j] \in Usable
              => /\ Len(ValidSeq(table_names[j])) <= Len(ValidSeq(table_names[i]))
                 /\ (Len(ValidSeq(table_names[j])) = Len(ValidSeq(table_names[i]))
                     => i <= j)

\* C21: with two or more usable tables the reference is the usable table
\* with the most valid timestamps, the first of them in the order of the
\* input mapping on a tie; the reference is not compared with itself, and
\* every other usable table is compared once
C21_ReferenceIsFirstLongest ==
    (Matched /\ Cardinality(Usable) >= 2)
    => /\ debug_info.reference_table = table_names[FirstLongest]
       /\ debug_info.reference_count = Len(ValidSeq(table_names[FirstLongest]))
       /\ \A k \in DOMAIN SummaryOf : SummaryOf[k].table # debug_info.reference_table
       /\ {SummaryOf[k].table : k \in DOMAIN SummaryOf}
             = Usable \ {debug_info.reference_table}
       /\ Len(SummaryOf) = Cardinality(Usable) - 1

\* three usable tables, the last two tie for the greatest count; the second
\* one is the reference
C21_Witness ==
    /\ Matched
    /\ Cardinality(Usable) = 3
    /\ Len(ValidSeq(table_names[1])) < Len(ValidSeq(table_names[2]))
    /\ Len(ValidSeq(table_names[2])) = Len(ValidSeq(table_names[3]))
    /\ debug_info.reference_table = table_names[2]

\* the iteration orders of the tables of the input mapping
Orders ==
    {q \in [DOMAIN table_names -> RangeOf(table_names)] :
        RangeOf(q) = RangeOf(table_names)}

\* the call on the same tables iterated in the order q
Reordered(q) == check_time_matching(q, table_data)

\* C26: the verdict all_matching is the same for every iteration order of
\* the same tables, also when the order changes the reference table
C26_VerdictIndependentOfOrder ==
    Matched => \A q \in Orders : Reordered(q).all_matching = all_matching

\* three usable tables of which two differ, and an order that changes the
\* reference table
C26_Witness ==
    /\ Matched
    /\ Cardinality(Usable) >= 3
    /\ \E n, m \in Usable : ValidSeq(n) # ValidSeq(m)
    /\ \E q \in Orders :
          Reordered(q).debug_info.reference_table # debug_info.reference_table

\* C27: all_matching is true exactly when the returned mismatch_reasons is
\* empty, also when tables were left out for a missing column or for having
\* no valid timestamp
C27_VerdictAgreesWithReasons ==
    Matched => (all_matching <=> debug_info.mismatch_reasons = <<>>)

---------------------------------------------------------------------------
(* Properties of recover_timestrings (SpecRecover).                        *)

Recovered == pc = "done" /\ op = "recover_timestrings"

RecoverInput == table_data[table_names[1]].rows

\* the positions of the input column that pandas.to_datetime rejects
Missing(i) == RecoverInput[i].kind # "ts"

Repaired == recovery.recovered_df.rows

\* a >= b for two fractions <<numerator, denominator>>
FracGeq(a, b) == a[1] * b[2] >= b[1] * a[2]

\* the confidence the strategy used gives the value estimated for position i
ConfidenceOf(i) ==
    IF recovery.recovery_report.strategy_used = "interpolate" THEN <<85, 100>>
    ELSE estimate_timestamp(i, SelectSeq([k \in DOMAIN RecoverInput |-> k],
                                         LAMBDA k : ~Missing(k)),
                            [k \in DOMAIN RecoverInput |->
                                IF Missing(k) THEN NaT ELSE RecoverInput[k].t],
                            recovery.recovery_report.strategy_used,
                            Len(RecoverInput), 0).confidence

\* C11: under interpolate, reconstruct and pattern and every
\* confidence_threshold, a missing position of the repaired column holds a
\* value only if that value was recorded with a confidence >=
\* confidence_threshold, total_recovered counts exactly those positions, and a
\* position whose estimate has a lower confidence stays null
C11_ConfidenceGate ==
    (Recovered /\ recovery.success
       /\ recovery.recovery_report.strategy_used
             \in {"interpolate", "reconstruct", "pattern"})
    => /\ \A i \in DOMAIN RecoverInput :
             (Missing(i) /\ Repaired[i] # NullCell)
             => \E k \in DOMAIN recovery.recovery_report.recovery_details :
                   LET d == recovery.recovery_report.recovery_details[k]
                   IN  /\ d.index = i - 1
                       /\ FracGeq(d.confidence, recovery_confidence)
                       /\ Repaired[i] = TsCell(d.recovered_value)
       /\ recovery.recovery_report.total_recovered =
             Cardinality({i \in DOMAIN RecoverInput :
                             Missing(i) /\ Repaired[i] # NullCell})
       /\ \A i \in DOMAIN RecoverInput :
             (Missing(i) /\ ~FracGeq(ConfidenceOf(i), recovery_confidence))
             => Repaired[i] = NullCell

\* one estimate is written and another one is rejected in the same call
C11_Witness ==
    /\ Recovered /\ recovery.success
    /\ recovery.recovery_report.strategy_used \in {"reconstruct", "pattern"}
    /\ recovery.recovery_report.total_recovered >= 1
    /\ \E i, j \in DOMAIN RecoverInput :
          /\ Missing(i) /\ Repaired[i] # NullCell
          /\ Missing(j) /\ Repaired[j] = NullCell

\* the number of cells of the input column that are null or unparseable
LostCount ==
    Cardinality({i \in DOMAIN RecoverInput :
                    parse_timestamp(RecoverInput[i]).parsed = NaT})

AutoRecovered == Recovered /\ strategy = "auto" /\ recovery.success

\* C13 as stated: under auto, a loss below 5% selects interpolate, a loss from
\* 5% up to and including 20% selects reconstruct, a loss above 20% selects
\* pattern, and strategy_used records the selection
C13_AutoSelectionInclusive ==
    AutoRecovered
    => recovery.recovery_report.strategy_used =
          (IF LostCount * 100 < 5 * Len(RecoverInput) THEN "interpolate"
           ELSE IF LostCount * 100 <= 20 * Len(RecoverInput) THEN "reconstruct"
           ELSE "pattern")

\* C13 as amended: a loss of exactly 20% already selects pattern; reconstruct
\* is selected from 5% up to but excluding 20%
C13_AutoSelection ==
    AutoRecovered
    => recovery.recovery_report.strategy_used =
          (IF LostCount * 100 < 5 * Len(RecoverInput) THEN "interpolate"
           ELSE IF LostCount * 100 < 20 * Len(RecoverInput) THEN "reconstruct"
           ELSE "pattern")

\* auto selected reconstruct for a loss between 5% and 20%
C13_Witness ==
    /\ AutoRecovered
    /\ LostCount * 100 >= 5 * Len(RecoverInput)
    /\ LostCount * 100 < 20 * Len(RecoverInput)
    /\ recovery.recovery_report.strategy_used = "reconstruct"

\* C14: a cell with an hour or day overflow is repaired to the exact
\* overflow-corrected timestamp: the repaired column holds that value at the
\* cell's position, not an estimate from the neighbours and not a null
C14_OverflowRepairedExactly ==
    (Recovered /\ recovery.success)
    => \A i \in DOMAIN RecoverInput :
          RecoverInput[i].kind = "overflow"
          => Repaired[i] = TsCell(TruncSec(RecoverInput[i].t))

\* every entry of the input column is a valid timestamp
AllValid ==
    /\ RecoverInput # <<>>
    /\ \A i \in DOMAIN RecoverInput : RecoverInput[i].kind = "ts"

\* C18: recovery of a column whose entries are all valid succeeds, returns
\* the column unchanged up to the cut to whole seconds, and reports
\* total_recovered = 0
C18_ValidColumnUnchanged ==
    (Recovered /\ AllValid)
    => /\ recovery.raised = ""
       /\ recovery.success
       /\ Repaired = [i \in DOMAIN RecoverInput |->
                         TsCell(RecoverInput[i].t - (RecoverInput[i].t % MsPerSecond))]
       /\ recovery.recovery_report.total_recovered = 0

\* the originally valid positions before and after position i
PrevValid(i) == {k \in DOMAIN RecoverInput : ~Missing(k) /\ k < i}

NextValid(i) == {k \in DOMAIN RecoverInput : ~Missing(k) /\ k > i}

LastOf(S) == CHOOSE k \in S : \A j \in S : j <= k

FirstOf(S) == CHOOSE k \in S : \A j \in S : k <= j

\* the k-th greatest element of the set S of positions
RECURSIVE KthLast(_, _)
KthLast(S, k) == IF k = 1 THEN LastOf(S) ELSE KthLast(S \ {LastOf(S)}, k - 1)

\* the per-row interval of the k-th last gap between the valid positions in S
GapInterval(S, k) ==
    (RecoverInput[KthLast(S, k)].t - RecoverInput[KthLast(S, k + 1)].t)
        \div (KthLast(S, k) - KthLast(S, k + 1))

\* the average per-row interval over the last g gaps between the positions in S
AverageInterval(S, g) == SumSeq([k \in 1..g |-> GapInterval(S, k)]) \div g

\* the estimate <<confidence, time>> the claim gives for a missing position i
\* with valid neighbours on one side only, under the strategy used
OneSidedEstimate(i, used) ==
    IF PrevValid(i) # {}
    THEN IF used = "pattern" /\ Cardinality(PrevValid(i)) >= 2
         THEN <<<<7, 10>>,
                RecoverInput[LastOf(PrevValid(i))].t
                + AverageInterval(PrevValid(i), Min2(3, Cardinality(PrevValid(i)) - 1))
                    * (i - LastOf(PrevValid(i)))>>
         ELSE <<<<6, 10>>,
                RecoverInput[LastOf(PrevValid(i))].t
                + MsPerMinute * (i - LastOf(PrevValid(i)))>>
    ELSE <<<<6, 10>>,
           RecoverInput[FirstOf(NextValid(i))].t
           - MsPerMinute * (FirstOf(NextValid(i)) - i)>>

OneSided(i) == Missing(i) /\ ((PrevValid(i) = {}) # (NextValid(i) = {}))

\* detail d records the estimate e = <<confidence, time>>
Records(d, e) ==
    /\ d.confidence[1] * e[1][2] = e[1][1] * d.confidence[2]
    /\ d.recovered_value = e[2] - (e[2] % MsPerSecond)

\* C22: a missing position with a valid neighbour on one side only is
\* estimated as prev + distance x average interval of the last (up to 3) gaps
\* with confidence 0.7 (pattern, two or more prior valid points), else as
\* prev + 1 minute per row with confidence 0.6, or as next - 1 minute per row
\* with confidence 0.6; it is written exactly when that confidence reaches the
\* threshold, a position without any neighbour is never written, and under
\* reconstruct with the default threshold 0.7 no leading or trailing missing
\* position is recovered
C22_OneSidedEstimates ==
    (Recovered /\ recovery.success
       /\ recovery.recovery_report.strategy_used \in {"reconstruct", "pattern"})
    => /\ \A k \in DOMAIN recovery.recovery_report.recovery_details :
             OneSided(recovery.recovery_report.recovery_details[k].index + 1)
             => Records(recovery.recovery_report.recovery_details[k],
                        OneSidedEstimate(
                            recovery.recovery_report.recovery_details[k].index + 1,
                            recovery.recovery_report.strategy_used))
       /\ \A i \in DOMAIN RecoverInput :
             OneSided(i)
             => (Repaired[i] # NullCell
                 <=> FracGeq(OneSidedEstimate(i,
                                 recovery.recovery_report.strategy_used)[1],
                             recovery_confidence))
       /\ \A i \in DOMAIN RecoverInput :
             (Missing(i) /\ PrevValid(i) = {} /\ NextValid(i) = {})
             => Repaired[i] = NullCell
       /\ (recovery.recovery_report.strategy_used = "reconstruct"
             /\ recovery_confidence = DefaultConfidenceThreshold)
          => \A i \in DOMAIN RecoverInput :
                (Missing(i) /\ (PrevValid(i) = {} \/ NextValid(i) = {}))
                => Repaired[i] = NullCell

\* under pattern a trailing position after three valid points is recovered
\* from the average interval and a leading position from the next point
C22_Witness ==
    /\ Recovered /\ recovery.success
    /\ recovery.recovery_report.strategy_used = "pattern"
    /\ \E i, j \in DOMAIN RecoverInput :
          /\ Missing(i) /\ NextValid(i) = {} /\ Cardinality(PrevValid(i)) >= 3
          /\ Repaired[i] # NullCell
          /\ Missing(j) /\ PrevValid(j) = {} /\ NextValid(j) # {}
          /\ Repaired[j] # NullCell

\* the fraction c = <<numerator, denominator>> lies in [lo, hi] tenths
WithinTenths(c, lo, hi) ==
    /\ c[2] > 0
    /\ lo * c[2] <= 10 * c[1]
    /\ 10 * c[1] <= hi * c[2]

\* C23: every confidence recorded in the report, and average_confidence, lie
\* in [0, 1]; the confidence of an estimate between two valid neighbours lies
\* in [0, 0.9] whatever the gap, whether or not the estimate is accepted
C23_ConfidenceInUnitInterval ==
    (Recovered /\ recovery.success
       /\ recovery.recovery_report.strategy_used
             \in {"interpolate", "reconstruct", "pattern"})
    => /\ \A k \in DOMAIN recovery.recovery_report.recovery_details :
             WithinTenths(recovery.recovery_report.recovery_details[k].confidence, 0, 10)
       /\ \A k \in DOMAIN recovery.recovery_report.confidence_scores :
             WithinTenths(recovery.recovery_report.confidence_scores[k], 0, 10)
       /\ WithinTenths(recovery.recovery_report.average_confidence, 0, 10)
       /\ \A i \in DOMAIN RecoverInput :
             (Missing(i) /\ PrevValid(i) # {} /\ NextValid(i) # {}
                /\ recovery.recovery_report.strategy_used # "interpolate")
             => WithinTenths(ConfidenceOf(i), 0, 9)

\* the estimates across a gap of three missing rows are recorded together
\* with an estimate from one side
C23_Witness ==
    /\ Recovered /\ recovery.success
    /\ Len(recovery.recovery_report.recovery_details) >= 4
    /\ \E i \in DOMAIN RecoverInput :
          /\ \A k \in i..(i + 2) : k \in DOMAIN RecoverInput /\ Missing(k)
          /\ PrevValid(i) # {} /\ NextValid(i + 2) # {}
          /\ Repaired[i] # NullCell
    /\ \E j \in DOMAIN RecoverInput : OneSided(j) /\ Repaired[j] # NullCell

\* the estimate for position i computed from the input column alone
EstimateFromInput(i) ==
    estimate_timestamp(i,
        SelectSeq([k \in DOMAIN RecoverInput |-> k], LAMBDA k : ~Missing(k)),
        [k \in DOMAIN RecoverInput |-> IF Missing(k) THEN NaT ELSE RecoverInput[k].t],
        recovery.recovery_report.strategy_used, Len(RecoverInput), 0)

\* C29: under reconstruct and pattern every originally valid position keeps
\* its timestamp, cut to the second, and the value and confidence recorded
\* for a missing position are those of the estimate computed from the
\* originally valid positions alone, whatever was recovered before it in the
\* same pass
C29_EstimatesFromOriginalNeighbours ==
    (Recovered /\ recovery.success
       /\ recovery.recovery_report.strategy_used \in {"reconstruct", "pattern"})
    => /\ \A i \in DOMAIN RecoverInput :
             ~Missing(i)
             => Repaired[i] = TsCell(RecoverInput[i].t - (RecoverInput[i].t % MsPerSecond))
       /\ \A k \in DOMAIN recovery.recovery_report.recovery_details :
             Records(recovery.recovery_report.recovery_details[k],
                     <<EstimateFromInput(
                           recovery.recovery_report.recovery_details[k].index + 1).confidence,
                       EstimateFromInput(
                           recovery.recovery_report.recovery_details[k].index + 1)
                           .estimated_time>>)
       /\ \A i \in DOMAIN RecoverInput :
             (Missing(i) /\ Repaired[i] # NullCell)
             => \E k \in DOMAIN recovery.recovery_report.recovery_details :
                   /\ recovery.recovery_report.recovery_details[k].index = i - 1
                   /\ Repaired[i]
                        = TsCell(recovery.recovery_report.recovery_details[k].recovered_value)

\* two adjacent missing positions after a valid one, both recovered in the
\* same pass
C29_Witness ==
    /\ Recovered /\ recovery.success
    /\ recovery.recovery_report.strategy_used \in {"reconstruct", "pattern"}
    /\ \E i \in DOMAIN RecoverInput :
          /\ i + 1 \in DOMAIN RecoverInput
          /\ PrevValid(i) # {}
          /\ Missing(i) /\ Repaired[i] # NullCell
          /\ Missing(i + 1) /\ Repaired[i + 1] # NullCell

---------------------------------------------------------------------------
(* Properties of analyze_tables (Spec), continued.                         *)

\* table n has the time column and no timestamp the quality analysis accepts
ZeroValid(n) ==
    /\ table_data[n].has_col
    /\ \A i \in DOMAIN table_data[n].rows :
          parse_timestamp(table_data[n].rows[i]).parsed = NaT

\* C12: when a table's column has zero valid timestamps the recovery fails
\* without an exception, analyze_tables analyses the original column of that
\* table and still returns a result for every table
C12_FallsBackToOriginal ==
    (BatchDone /\ \E n \in RangeOf(table_names) : ZeroValid(n))
    => /\ raised = ""
       /\ \A n \in RangeOf(table_names) :
             /\ n \in DOMAIN analysis_results
             /\ ZeroValid(n)
                => analysis_results[n] =
                      [analyze_table(n, table_data[n], time_threshold_minutes, FALSE)
                          EXCEPT !.time_matched = time_matched]

\* the parsed column of table n as the caller supplied it
SourceTimes(n) == parse_time_string(table_data[n].rows)

\* tables a and b have the time column, only valid timestamps, the same
\* number of rows, and at every row the same timestamp up to the second
EqualToTheSecond(a, b) ==
    /\ table_data[a].has_col /\ table_data[b].has_col
    /\ Len(table_data[a].rows) = Len(table_data[b].rows)
    /\ Len(table_data[a].rows) > 0
    /\ \A i \in DOMAIN table_data[a].rows :
          /\ SourceTimes(a)[i] # NaT
          /\ SourceTimes(b)[i] # NaT
          /\ SourceTimes(a)[i] \div MsPerSecond = SourceTimes(b)[i] \div MsPerSecond

\* C15: two tables whose timestamps agree at every row after truncation to
\* whole seconds are reported as matching by analyze_tables, also when the
\* source values differ below the second
C15_MatchToTheSecond ==
    (BatchDone /\ Len(table_names) = 2
       /\ EqualToTheSecond(table_names[1], table_names[2]))
    => /\ raised = ""
       /\ time_matched
       /\ debug_info.mismatch_reasons = <<>>

---------------------------------------------------------------------------
(* Properties of the LOTE tables (SpecLote).                               *)

\* a detailed mapping was generated
Mapped ==
    /\ pc = "generated"
    /\ op \in {"generate_lotedata_detailed_mapping", "generate_both_lote_tables"}
    /\ raised = ""

\* the cycles of the TableResult the LOTE tables were generated from
LoteCycles == analysis_results[args[1]].cycles

\* the positions of the cycles whose inclusive interval contains timestamp t
Containing(t) ==
    {c \in DOMAIN LoteCycles :
        LoteCycles[c].start_time <= t /\ t <= LoteCycles[c].end_time}

\* C17 as stated: at most one cycle contains a row's timestamp; the row's
\* CycleID is the cycle_id of that cycle, and 0 when no cycle contains it
C17_CycleIdOfTheContainingCycle ==
    Mapped
    => \A k \in DOMAIN lote_data :
          /\ Cardinality(Containing(lote_data[k].TimeString)) <= 1
          /\ Containing(lote_data[k].TimeString) = {}
             => lote_data[k].CycleID = 0
          /\ \A c \in Containing(lote_data[k].TimeString) :
                lote_data[k].CycleID = LoteCycles[c].cycle_id

\* C17 as amended: the row's CycleID is 0 when no cycle contains its
\* timestamp and otherwise the cycle_id of the last cycle of the list that
\* contains it; at most one cycle contains it when the threshold is not
\* negative
C17_CycleIdOfTheLastContainingCycle ==
    Mapped
    => \A k \in DOMAIN lote_data :
          /\ Containing(lote_data[k].TimeString) = {}
             => lote_data[k].CycleID = 0
          /\ \A c \in Containing(lote_data[k].TimeString) :
                (\A c2 \in Containing(lote_data[k].TimeString) : c2 <= c)
                => lote_data[k].CycleID = LoteCycles[c].cycle_id
          /\ time_threshold_minutes >= 0
             => Cardinality(Containing(lote_data[k].TimeString)) <= 1

\* a mapping, under a threshold that is not negative, with a row in the
\* second cycle and a row no cycle contains
C17_Witness ==
    /\ Mapped
    /\ time_threshold_minutes >= 0
    /\ \E k \in DOMAIN lote_data : lote_data[k].CycleID = 2
    /\ \E k \in DOMAIN lote_data : lote_data[k].CycleID = 0

\* a summary was generated
Summarised ==
    /\ pc = "generated"
    /\ op \in {"generate_lotedata_summary", "generate_both_lote_tables"}
    /\ raised = ""

\* C20: the StartTime and EndTime texts of every summary row, parsed again by
\* parse_time_string, give the cycle's start_time and end_time cut to whole
\* seconds
C20_SummaryRoundTrip ==
    Summarised
    => /\ Len(lote_summary) = Len(LoteCycles)
       /\ \A k \in DOMAIN lote_summary :
             parse_time_string(<<lote_summary[k].StartTime, lote_summary[k].EndTime>>)
               = <<LoteCycles[k].start_time - (LoteCycles[k].start_time % MsPerSecond),
                   LoteCycles[k].end_time - (LoteCycles[k].end_time % MsPerSecond)>>

\* a summary with a time of the 12th (day <= 12) that has a sub-second part
\* and a time of the 13th with hours, minutes and seconds
C20_Witness ==
    /\ Summarised
    /\ \E k \in DOMAIN lote_summary :
          /\ lote_summary[k].StartTime.t[1] = 12
          /\ LoteCycles[k].start_time % MsPerSecond # 0
    /\ \E k \in DOMAIN lote_summary :
          /\ lote_summary[k].EndTime.t[1] = 13
          /\ lote_summary[k].EndTime.t[6] # 0

\* the table analyze_table segmented for the reference table: the stored
\* table after the recovery step and the cut to whole seconds
SegmentedTable ==
    strip_milliseconds(recover_table(table_data[args[1]], strategy, "noop", 0).df)

\* the mapping is generated from the timestamps that were segmented
SameData ==
    parse_time_string(SegmentedTable.rows) = parse_time_string(table_data[args[1]].rows)

\* the rows of the mapping with CycleID id
RowsOfCycle(id) == {r \in DOMAIN lote_data : lote_data[r].CycleID = id}

\* the mapping has one row per valid timestamp, each with the id of a cycle,
\* and every cycle has as many rows as its sample_count
MappingRefinesCycles ==
    /\ Len(lote_data) = Len(dropna(parse_time_string(table_data[args[1]].rows)))
    /\ \A r \in DOMAIN lote_data : lote_data[r].CycleID \in 1..Len(LoteCycles)
    /\ \A k \in DOMAIN LoteCycles :
          Cardinality(RowsOfCycle(LoteCycles[k].cycle_id)) = LoteCycles[k].sample_count

\* C30 as stated: when the mapping is generated from the data that was
\* segmented, every row with a valid timestamp gets a CycleID in 1..N, never
\* 0, and every cycle k has sample_count rows with CycleID k
C30_MappingCountsMatchCycles == (Mapped /\ SameData) => MappingRefinesCycles

\* C30 as amended: the same, for a time threshold that is not negative
C30_MappingCountsMatchCyclesNonNegative ==
    (Mapped /\ SameData /\ time_threshold_minutes >= 0) => MappingRefinesCycles

\* a mapping of the segmented data over two or more cycles, one of them with
\* two or more rows
C30_Witness ==
    /\ Mapped /\ SameData
    /\ time_threshold_minutes >= 0
    /\ Len(LoteCycles) >= 2
    /\ \E k \in DOMAIN LoteCycles :
          /\ LoteCycles[k].sample_count >= 2
          /\ Cardinality(RowsOfCycle(LoteCycles[k].cycle_id)) >= 2

---------------------------------------------------------------------------
(* Properties of _try_fix_common_issues (SpecFix).                         *)

\* _try_fix_common_issues has returned
Fixed == pc = "done" /\ op = "_try_fix_common_issues"

\* the fields of the text the call was given
FixInput == args[1].t

\* the date of the text exists in the calendar
ValidDate(f) == f[2] \in 1..12 /\ f[1] \in 1..DaysInMonth(f[2], f[3])

\* the text with its date moved on by n days and its hour replaced by h
WithHourCarried(f, n, h) ==
    LET date == NormalizeDate(f[1] + n, f[2], f[3])
    IN  <<date[1], date[2], date[3], h, f[5], f[6]>>

\* the text with its day replaced by d and nothing else
WithDay(f, d) == <<d, f[2], f[3], f[4], f[5], f[6]>>

\* C24: only the overflowing field changes: for an hour of 24 or more on an
\* existing date the result has the hour modulo 24, the date moved on by
\* hour div 24 days and the same minutes and seconds; for a day beyond the
\* end of its month the result has the month's last day and every other
\* field as in the input
C24_OnlyOverflowingFieldsChange ==
    Fixed =>
        /\ (FixInput[4] >= 24 /\ ValidDate(FixInput))
              => fixed.value = WithHourCarried(FixInput, FixInput[4] \div 24,
                                               FixInput[4] % 24)
        /\ (FixInput[2] \in 1..12 /\ FixInput[1] > DaysInMonth(FixInput[2], FixInput[3]))
              => fixed.value = WithDay(FixInput, DaysInMonth(FixInput[2], FixInput[3]))

---------------------------------------------------------------------------
(* Properties of analyze_timestring_quality (SpecQuality).                 *)

\* analyze_timestring_quality has been called on a table that has the column
QualityAnalyzed ==
    pc = "done" /\ op = "analyze_timestring_quality" /\ table_data[args[1]].has_col

\* the column the call was given
QualityInput == table_data[args[1]].rows

\* the number of entries of the column of the kinds ks
CountKinds(ks) == Cardinality({i \in DOMAIN QualityInput : QualityInput[i].kind \in ks})

\* C25: for a column of any length the call returns an analysis in which
\* every entry is counted once, as null (missing or null-like text), valid
\* or invalid, the three counts add up to total_rows, and
\* data_loss_percentage is (invalid_count + null_count) / total_rows * 100,
\* between 0 and 100
C25_EveryEntryClassifiedOnce ==
    QualityAnalyzed =>
        /\ raised = ""
        /\ quality.error = ""
        /\ quality.analysis.total_rows = Len(QualityInput)
        /\ quality.analysis.null_count = CountKinds({"null"})
        /\ quality.analysis.valid_count = CountKinds({"ts", "overflow"})
        /\ quality.analysis.invalid_count = CountKinds({"bad"})
        /\ quality.analysis.valid_count + quality.analysis.invalid_count
             + quality.analysis.null_count = quality.analysis.total_rows
        /\ quality.analysis.data_loss_percentage[2] > 0
        /\ quality.analysis.data_loss_percentage[1] * quality.analysis.total_rows
             = (quality.analysis.invalid_count + quality.analysis.null_count) * 100
                 * quality.analysis.data_loss_percentage[2]
        /\ quality.analysis.data_loss_percentage[1] >= 0
        /\ quality.analysis.data_loss_percentage[1]
             <= 100 * quality.analysis.data_loss_percentage[2]

---------------------------------------------------------------------------
(* Properties of sequences of analyze_tables calls (SpecCalls).            *)

\* get_analysis_summary has returned
SummaryReturned == pc = "done" /\ op = "get_analysis_summary"

\* the stored results without an error and with at least one cycle
WithCycles ==
    {n \in DOMAIN analysis_results :
        analysis_results[n].error_message = "" /\ analysis_results[n].total_cycles > 0}

\* C28: after any sequence of analyze_tables calls, also calls that raise,
\* time_matched and analysis_results describe the same call: the summary
\* reports time_matched = true only if at least two stored results are free
\* of errors and have cycles, and every stored result carries the service's
\* time_matched
C28_FlagAndResultsOfTheSameCall ==
    SummaryReturned =>
        /\ analysis_summary.time_matched => Cardinality(WithCycles) >= 2
        /\ \A n \in DOMAIN analysis_results :
              analysis_results[n].time_matched = time_matched

============================================================================
